---- MODULE Spec2Model ----
(***************************************************************************)
(* Azure AI Artifact Studio: the chat endpoint's tool-call orchestration   *)
(* loop (app/api/chat/route.ts), the two tool executors, the document      *)
(* factory, the generated-file download route and the client's artifact    *)
(* rendering, as state machines.                                           *)
(*                                                                         *)
(* Strings are sequences of one-character strings wherever the code looks  *)
(* inside them (file names, paths, urls); markup is a sequence of element  *)
(* records; JSON values are tagged records [t, v].                         *)
(***************************************************************************)
EXTENDS Integers, Sequences, FiniteSets, TLC

VARIABLES
  envConfigured,  \* AZURE_OPENAI_API_KEY and AZURE_OPENAI_ENDPOINT are both set
  reqs,           \* the chat requests: per request, the locals of POST/runResponsesCall
  store,          \* the generated-files directory: a set of [key, bytes]
  nextUuid,       \* how many ids randomUUID() has handed out
  backendCalls,   \* how many calls the model backend has answered (ids of its responses)
  fsOutside,      \* absolute paths of files that exist outside the generated-files directory
  getResp,        \* the response of the last GET /api/generated/[file]
  clientArtifacts,   \* the artifacts of the messages the page holds
  selectedArtifact,  \* the artifact shown in the modal, or NoArtifact
  clientMessages,    \* the messages state of the page: the conversation
  sending,           \* the fetch of /api/chat the page waits for, or NotSending
  dirsCreated,    \* ensureDirectories() has created the two blob directories
  uploadStore,    \* the uploads directory: a set of [key, bytes]
  uploadReqs      \* the upload requests: per request, the locals of POST /api/upload

vars == <<envConfigured, reqs, store, nextUuid, backendCalls, fsOutside, getResp,
          clientArtifacts, selectedArtifact, clientMessages, sending, dirsCreated,
          uploadStore, uploadReqs>>

chatVars == <<envConfigured, reqs, store, nextUuid, backendCalls, dirsCreated>>
getVars == <<fsOutside, getResp>>
clientVars == <<clientArtifacts, selectedArtifact, clientMessages, sending>>
uploadVars == <<uploadStore, uploadReqs>>

(***************************************************************************)
(* Bounds of the model.                                                    *)
(***************************************************************************)
\* concurrent chat requests
NumRequests == 2
\* calls the stub backend answers, over all requests
MaxBackendCalls == 2

Requests == 1..NumRequests

(***************************************************************************)
(* Strings.                                                                *)
(***************************************************************************)
RECURSIVE Concat(_)
Concat(ss) == IF ss = <<>> THEN <<>> ELSE Head(ss) \o Concat(Tail(ss))

IsPrefix(p, s) == Len(p) <= Len(s) /\ SubSeq(s, 1, Len(p)) = p

Take(s, n) == SubSeq(s, 1, IF Len(s) < n THEN Len(s) ELSE n)

Rep(c, n) == [i \in 1..n |-> c]

Lower == {"a","b","c","d","e","f","g","h","i","j","k","l","m",
          "n","o","p","q","r","s","t","u","v","w","x","y","z"}
Upper == {"A","B","C","D","E","F","G","H","I","J","K","L","M",
          "N","O","P","Q","R","S","T","U","V","W","X","Y","Z"}
Digit == {"0","1","2","3","4","5","6","7","8","9"}

(***************************************************************************)
(* JSON values and JSON text.  A value is [t, v]: an object's v is a       *)
(* function from its keys to values.  A JSON text is [raw, val]: "json"    *)
(* with the value it encodes, "malformed" (JSON.parse throws), "empty"     *)
(* (the empty string) or "absent" (null/undefined instead of a string).    *)
(***************************************************************************)
Undef == [t |-> "undef", v |-> <<>>]
JNull == [t |-> "null", v |-> <<>>]
JStr(s) == [t |-> "str", v |-> s]
JBool(b) == [t |-> "bool", v |-> b]
JNum(n) == [t |-> "num", v |-> n]
JObj(f) == [t |-> "obj", v |-> f]
EmptyObj == JObj(<<>>)

JsonText(val) == [raw |-> "json", val |-> val]
Malformed == [raw |-> "malformed", val |-> Undef]
EmptyText == [raw |-> "empty", val |-> Undef]
Absent == [raw |-> "absent", val |-> Undef]

\* JSON.stringify of a result object: the keys whose value is undefined are left out
Stringify(f) == JsonText(JObj([k \in {x \in DOMAIN f : f[x] # Undef} |-> f[k]]))

\* function safeJsonParse: null on a parse error, {} for the empty string
safeJsonParse(input) ==
  IF input.raw = "empty" THEN EmptyObj
  ELSE IF input.raw = "malformed" THEN JNull
  ELSE input.val

\* x ?? y
Coalesce(x, y) == IF x.t \in {"null", "undef"} THEN y ELSE x

\* obj.key, undefined when the key is missing
Field(obj, key) == IF key \in DOMAIN obj.v THEN obj.v[key] ELSE Undef

(***************************************************************************)
(* The zod schemas of the tool arguments.  A field is [kind, required,     *)
(* min, max]: max = 0 stands for "no upper limit".                         *)
(***************************************************************************)
ReqStr(min, max) == [kind |-> "string", required |-> TRUE, min |-> min, max |-> max, values |-> {}]
OptStr == [kind |-> "string", required |-> FALSE, min |-> 0, max |-> 0, values |-> {}]
Enum(vals) == [kind |-> "enum", required |-> TRUE, min |-> 0, max |-> 0, values |-> vals]

MaxTitleLen == 120

artifactArgsSchema ==
  [title |-> ReqStr(1, MaxTitleLen), description |-> OptStr, html |-> ReqStr(1, 0),
   css |-> OptStr, js |-> OptStr]

DocumentTypes == {"pdf", "docx", "txt", "csv", "md"}

documentArgsSchema ==
  [filename |-> ReqStr(1, 0), type |-> Enum(DocumentTypes), content |-> ReqStr(1, 0),
   summary |-> OptStr]

\* FieldIssue with the .max() of a string left out
FieldIssue_NoMax(fs, val) ==
  IF val = Undef THEN (IF fs.required THEN "required" ELSE "")
  ELSE IF val.t # "str" THEN "invalid_type"
  ELSE IF fs.kind = "enum" THEN (IF val.v \in fs.values THEN "" ELSE "invalid_literal")
  ELSE IF Len(val.v) < fs.min THEN "too_small"
  ELSE ""

\* one field of a z.object: "" when the value passes, else the kind of issue
FieldIssue(fs, val) ==
  IF val = Undef THEN (IF fs.required THEN "required" ELSE "")
  ELSE IF val.t # "str" THEN "invalid_type"
  ELSE IF fs.kind = "enum" THEN (IF val.v \in fs.values THEN "" ELSE "invalid_literal")
  ELSE IF Len(val.v) < fs.min THEN "too_small"
  ELSE IF fs.max > 0 /\ Len(val.v) > fs.max THEN "too_big"
  ELSE ""

\* schema.safeParse(value): unknown keys are stripped, error.flatten().fieldErrors
\* names the fields with an issue (none when the value is not an object at all)
safeParse(schema, value) ==
  IF value.t # "obj"
  THEN [success |-> FALSE, data |-> <<>>, fieldErrors |-> JObj(<<>>)]
  ELSE LET bad == {k \in DOMAIN schema : FieldIssue(schema[k], Field(value, k)) # ""}
       IN IF bad = {}
          THEN [success |-> TRUE, data |-> [k \in DOMAIN schema |-> Field(value, k)],
                fieldErrors |-> JObj(<<>>)]
          ELSE [success |-> FALSE, data |-> <<>>,
                fieldErrors |->
                  JObj([k \in bad |-> JStr(FieldIssue(schema[k], Field(value, k)))])]

(***************************************************************************)
(* Markup.  A fragment is a sequence of elements [tag, attrs, text]: attrs *)
(* is the set of attribute names (each a string of characters), text the   *)
(* element's text content, and tag "#text" is a bare text node.            *)
(***************************************************************************)
Chars_data == <<"d","a","t","a","-">>
Attr_style == <<"s","t","y","l","e">>
Attr_class == <<"c","l","a","s","s">>
Attr_id == <<"i","d">>
Attr_href == <<"h","r","e","f">>
Attr_src == <<"s","r","c">>
Attr_alt == <<"a","l","t">>
Attr_onclick == <<"o","n","c","l","i","c","k">>
Attr_onerror == <<"o","n","e","r","r","o","r">>
Attr_data_x == Chars_data \o <<"x">>

Elem(tag, attrs, text) == [tag |-> tag, attrs |-> attrs, text |-> text]
Text(t) == Elem("#text", {}, t)

\* sanitizeHtml.defaults.allowedTags (the ones the model's markup uses) plus
\* the tags the call adds
AllowedTags ==
  {"div", "p", "span", "a", "b", "h1", "ul", "li", "table"}
    \cup {"img", "svg", "path", "circle", "line", "polyline", "polygon", "style", "canvas"}

\* sanitize-html drops the text of these tags when the tag is not allowed
NonTextTags == {"script", "style", "textarea", "option"}

\* allowedAttributes: the defaults per tag, and for every tag style, class, id, data-*
AllowedAttributesOf(tag) ==
  (CASE tag = "a" -> {Attr_href, <<"n","a","m","e">>, <<"t","a","r","g","e","t">>}
     [] tag = "img" -> {Attr_src, Attr_alt, <<"t","i","t","l","e">>}
     [] OTHER -> {})
    \cup {Attr_style, Attr_class, Attr_id}

AttributeAllowed(tag, name) ==
  name \in AllowedAttributesOf(tag) \/ (IsPrefix(Chars_data, name) /\ Len(name) > Len(Chars_data))

SanitizeElement(e) ==
  IF e.tag = "#text" THEN <<e>>
  ELSE IF e.tag \in AllowedTags
       THEN <<Elem(e.tag, {a \in e.attrs : AttributeAllowed(e.tag, a)}, e.text)>>
  ELSE IF e.tag \in NonTextTags \/ e.text = <<>> THEN <<>>
  ELSE <<Text(e.text)>>

\* sanitizeHtml(markup, options) with the options of executeCreateArtifact
sanitizeHtml(markup) == Concat([i \in 1..Len(markup) |-> SanitizeElement(markup[i])])

StyleElement(css) == Elem("style", {}, css)

(***************************************************************************)
(* create_artifact.                                                        *)
(***************************************************************************)
Lit(s) == [k |-> "lit", v |-> <<s>>]
ScriptBlock(js) == [k |-> "script", v |-> js]

\* Array.prototype.filter(Boolean) on the parts of fullHtml: empty strings go
NonEmptyParts(parts) == SelectSeq(parts, LAMBDA x : x.v # <<>>)

\* css ?? ""
OrEmpty(x) == IF x = Undef THEN <<>> ELSE x.v

\* BuildPreviewHtml without the sanitizer
BuildPreviewHtml_Raw(data) == <<StyleElement(OrEmpty(data.css))>> \o data.html.v

\* previewHtml: sanitizeHtml(`<style>${css ?? ""}</style>${html}`, options)
BuildPreviewHtml(data) == sanitizeHtml(<<StyleElement(OrEmpty(data.css))>> \o data.html.v)

BuildFullHtml(data) ==
  NonEmptyParts(<<
    Lit("<!DOCTYPE html>"), Lit("<html>"), Lit("<head>"), Lit("<meta charset=\"utf-8\" />"),
    Lit("<style>"), [k |-> "css", v |-> OrEmpty(data.css)], Lit("</style>"), Lit("</head>"),
    Lit("<body>"), [k |-> "html", v |-> data.html.v],
    IF OrEmpty(data.js) # <<>> THEN ScriptBlock(data.js.v) ELSE [k |-> "lit", v |-> <<>>],
    Lit("</body>"), Lit("</html>") >>)

(***************************************************************************)
(* lib/documentFactory.ts                                                  *)
(***************************************************************************)
Hyphen == "-"
HexDigits == <<"1","2","3","4","5","6","7","8","9","a","b","c","d","e","f">>

\* the n-th value of randomUUID(): five groups of hex digits joined by hyphens
\* (each group is shortened to one digit)
Uuid(n) ==
  LET h == HexDigits[((n - 1) % Len(HexDigits)) + 1]
  IN <<h, Hyphen, h, Hyphen, h, Hyphen, h, Hyphen, h>>

EXTENSION_MAP ==
  [pdf |-> <<".","p","d","f">>, docx |-> <<".","d","o","c","x">>, txt |-> <<".","t","x","t">>,
   csv |-> <<".","c","s","v">>, md |-> <<".","m","d">>]

DefaultBaseName == <<"a","z","u","r","e","-","a","i","-","d","o","c","u","m","e","n","t">>

MaxBaseLen == 120

SafeChars == Lower \cup Upper \cup Digit \cup {".", "_", "-"}

\* .replace(/\.[^/.]+$/, ""): a final dot with one or more characters after it,
\* none of them a dot or a slash, is cut off with what follows it
StripExtension(name) ==
  LET dots == {i \in 1..Len(name) :
                 /\ name[i] = "."
                 /\ i < Len(name)
                 /\ \A j \in (i + 1)..Len(name) : name[j] \notin {".", "/"}}
  IN IF dots = {} THEN name ELSE SubSeq(name, 1, (CHOOSE i \in dots : TRUE) - 1)

\* .replace(/[^a-zA-Z0-9._-]/g, "_")
ReplaceUnsafe(name) == [i \in 1..Len(name) |-> IF name[i] \in SafeChars THEN name[i] ELSE "_"]

\* SafeBase without the replacement of characters
SafeBase_Unreplaced(filename) ==
  LET cut == Take(StripExtension(filename), MaxBaseLen)
  IN IF cut = <<>> THEN DefaultBaseName ELSE cut

SafeBase(filename) ==
  LET cut == Take(ReplaceUnsafe(StripExtension(filename)), MaxBaseLen)
  IN IF cut = <<>> THEN DefaultBaseName ELSE cut

\* Buffer.from(content, "utf-8"), on the characters the model's contents use
Utf8Char(c) ==
  CASE c = "1" -> <<49>> [] c = "2" -> <<50>> [] c = "3" -> <<51>> [] c = "," -> <<44>>
    [] c = "\n" -> <<10>> [] c = " " -> <<32>> [] c = "a" -> <<97>> [] c = "b" -> <<98>>
    [] c = "e'" -> <<195, 169>>           \* U+00E9, two bytes
    [] OTHER -> <<239, 191, 189>>         \* a lone surrogate is stored as U+FFFD

Utf8(content) == Concat([i \in 1..Len(content) |-> Utf8Char(content[i])])

NlRun(s, i) ==
  LET ends == {j \in i..(Len(s) + 1) : j = Len(s) + 1 \/ s[j] # "\n"}
  IN (CHOOSE j \in ends : \A k \in ends : j <= k) - i

\* content.split(/\n{2,}/)
RECURSIVE SplitBlankLines(_, _, _)
SplitBlankLines(s, i, cur) ==
  IF i > Len(s) THEN <<cur>>
  ELSE IF NlRun(s, i) >= 2 THEN <<cur>> \o SplitBlankLines(s, i + NlRun(s, i), <<>>)
  ELSE SplitBlankLines(s, i + 1, Append(cur, s[i]))

Whitespace == {" ", "\n", "\t"}

\* String.prototype.trim
Trim(s) ==
  LET keep == {i \in 1..Len(s) : s[i] \notin Whitespace}
  IN IF keep = {} THEN <<>>
     ELSE SubSeq(s, CHOOSE i \in keep : \A k \in keep : i <= k,
                    CHOOSE i \in keep : \A k \in keep : i >= k)

\* function renderDocx: one Paragraph per block of the split, trimmed
renderDocx(content) ==
  LET blocks == SplitBlankLines(content, 1, <<>>)
      paragraphs == [i \in 1..Len(blocks) |-> Trim(blocks[i])]
  IN [format |-> "docx", body |-> IF Len(paragraphs) > 0 THEN paragraphs ELSE <<content>>]

\* function renderPdf: one left-aligned text flow
renderPdf(content) == [format |-> "pdf", body |-> <<content>>]

createBufferForType(type, content) ==
  CASE type = "pdf" -> renderPdf(content)
    [] type = "docx" -> renderDocx(content)
    [] OTHER -> [format |-> "raw", body |-> Utf8(content)]

\* function createDocumentFile, up to the write: id is the value of randomUUID()
createDocumentFile(data, id) ==
  LET finalFilename == SafeBase(data.filename.v) \o EXTENSION_MAP[data.type.v]
  IN [id |-> id, filename |-> finalFilename, type |-> data.type.v,
      storedFilename |-> id \o <<Hyphen>> \o finalFilename,
      buffer |-> createBufferForType(data.type.v, data.content.v)]

\* WriteBlob into a directory emptied first: only the newest file is kept
WriteBlob_Emptying(dir, key, bytes) == {[key |-> key, bytes |-> bytes]}

\* writeFile(destination, buffer) in the generated-files directory
WriteBlob(dir, key, bytes) == {e \in dir : e.key # key} \cup {[key |-> key, bytes |-> bytes]}

(***************************************************************************)
(* The tool executors of the chat route.  Each yields the result object    *)
(* handed back to the model and the accumulator after the call.            *)
(***************************************************************************)
\* function executeCreateArtifact
executeCreateArtifact(rawArgs, artifacts, id) ==
  LET Checked(parsed) ==
        IF ~parsed.success
        THEN [ok |-> FALSE, artifacts |-> artifacts,
              result |-> [success |-> JBool(FALSE),
                          error |-> JStr(<<"Invalid artifact arguments">>),
                          errorDetail |-> parsed.fieldErrors]]
        ELSE [ok |-> TRUE,
              artifacts |-> Append(artifacts,
                              [id |-> id, title |-> parsed.data.title.v,
                               description |-> parsed.data.description,
                               previewHtml |-> BuildPreviewHtml(parsed.data),
                               fullHtml |-> BuildFullHtml(parsed.data)]),
              result |-> [success |-> JBool(TRUE), artifactId |-> JStr(id)]]
  IN Checked(safeParse(artifactArgsSchema, Coalesce(safeJsonParse(rawArgs), EmptyObj)))

ApiGenerated == <<"/","a","p","i","/","g","e","n","e","r","a","t","e","d","/">>

\* DownloadUrl built from the display name instead of the storage key
DownloadUrl_NoId(storedFilename) ==
  ApiGenerated \o SubSeq(storedFilename, Len(Uuid(1)) + 2, Len(storedFilename))

\* `/api/generated/${result.storedFilename}`
DownloadUrl(storedFilename) == ApiGenerated \o storedFilename

\* function executeCreateDocument, the write having succeeded
executeCreateDocument(rawArgs, generatedFiles, id) ==
  LET Created(file, summary) ==
        [ok |-> TRUE,
         generatedFiles |-> Append(generatedFiles,
                              [id |-> file.id, filename |-> file.filename, type |-> file.type,
                               storedFilename |-> file.storedFilename,
                               downloadUrl |-> DownloadUrl(file.storedFilename),
                               summary |-> summary]),
         key |-> file.storedFilename, buffer |-> file.buffer,
         result |-> [success |-> JBool(TRUE), fileId |-> JStr(file.id),
                     downloadUrl |-> JStr(DownloadUrl(file.storedFilename)),
                     filename |-> JStr(file.filename)]]
      Checked(parsed) ==
        IF ~parsed.success
        THEN [ok |-> FALSE, generatedFiles |-> generatedFiles, key |-> <<>>, buffer |-> <<>>,
              result |-> [success |-> JBool(FALSE),
                          error |-> JStr(<<"Invalid document arguments">>),
                          errorDetail |-> parsed.fieldErrors]]
        ELSE Created(createDocumentFile(parsed.data, id), parsed.data.summary)
  IN Checked(safeParse(documentArgsSchema, Coalesce(safeJsonParse(rawArgs), EmptyObj)))

(***************************************************************************)
(* The model backend is a stub: it answers a call with any of these        *)
(* response bodies (the `output` list of a Responses API response).        *)
(***************************************************************************)
OutputText(t) == [type |-> "output_text", text |-> t]
Refusal(t) == [type |-> "refusal", text |-> t]
Message(content) == [type |-> "message", content |-> content]
Reasoning == [type |-> "reasoning"]
FunctionCall(name, call_id, args) ==
  [type |-> "function_call", name |-> name, call_id |-> call_id, arguments |-> args]

\* a call id that is missing from the item
NoCallId == "undefined"

HtmlRich ==
  << Elem("div", {Attr_class, Attr_onclick, Attr_data_x}, <<"hi">>),
     Elem("script", {}, <<"evil()">>),
     Elem("img", {Attr_src, Attr_onerror}, <<>>),
     Elem("iframe", {Attr_src}, <<"inner">>) >>

HtmlPlain == << Elem("p", {}, <<"ok">>) >>

ArtifactArgsFull ==
  JsonText(JObj([title |-> JStr(<<"T">>), description |-> JStr(<<"demo">>),
                 html |-> JStr(HtmlRich), css |-> JStr(<<"p{}">>), js |-> JStr(<<"run()">>)]))

ArtifactArgsPlain == JsonText(JObj([title |-> JStr(<<"P">>), html |-> JStr(HtmlPlain)]))

ArtifactArgsLongTitle ==
  JsonText(JObj([title |-> JStr(Rep("t", MaxTitleLen + 1)), html |-> JStr(HtmlPlain)]))

Numbers == <<"n","u","m","b","e","r","s">>

DocArgsNumbers ==
  JsonText(JObj([filename |-> JStr(Numbers), type |-> JStr("csv"),
                 content |-> JStr(<<"1",",","2",",","3">>)]))

DocArgsReport ==
  JsonText(JObj([filename |-> JStr(<<"m","y"," ","r",".","o","l","d">>), type |-> JStr("docx"),
                 content |-> JStr(<<"a","\n","\n","b">>), summary |-> JStr(<<"two">>)]))

\* an artifact and two documents asked for in one response
BodyBundle ==
  << FunctionCall("create_artifact", "c1", ArtifactArgsPlain),
     FunctionCall("create_document", "c2", DocArgsNumbers),
     FunctionCall("create_document", "c3", DocArgsReport) >>

BodyDone == << Message(<<OutputText(<<"Done">>)>>) >>

BodyDoc == << FunctionCall("create_document", "c1", DocArgsNumbers) >>

BodyMixed ==
  << Message(<<OutputText(<<"Working">>)>>),
     FunctionCall("create_artifact", "c1", ArtifactArgsFull),
     FunctionCall("create_document", "c2", Malformed),
     FunctionCall("get_weather", "c3", EmptyText),
     FunctionCall("create_document", "c4", DocArgsReport),
     FunctionCall("create_artifact", "c5", Absent) >>

BodySkipped ==
  << Reasoning,
     FunctionCall("create_artifact", NoCallId, ArtifactArgsPlain),
     Message(<<Refusal(<<"no">>), OutputText(<<"First">>), OutputText(<<"Second">>)>>),
     Message(<<OutputText(<<"Third">>)>>) >>

BodyBadArgs ==
  << FunctionCall("create_artifact", "c1", ArtifactArgsLongTitle),
     FunctionCall("create_artifact", "c2", ArtifactArgsPlain),
     FunctionCall("create_document", "", DocArgsNumbers) >>

BodyRefusal == << Message(<<Refusal(<<"no">>)>>) >>

Catalogue == {BodyDone, BodyDoc, BodyMixed, BodySkipped, BodyBadArgs, BodyRefusal}

(***************************************************************************)
(* The file system: paths, and the files the routes read and write.        *)
(***************************************************************************)
Slash == "/"

\* process.cwd()
Cwd == <<"/","a","p","p">>

\* the segments of a path between its slashes, empty ones included
RECURSIVE SplitSegments(_, _, _)
SplitSegments(s, i, cur) ==
  IF i > Len(s) THEN <<cur>>
  ELSE IF s[i] = Slash THEN <<cur>> \o SplitSegments(s, i + 1, <<>>)
  ELSE SplitSegments(s, i + 1, Append(cur, s[i]))

\* "." and empty segments go, ".." takes the segment before it along
RECURSIVE ResolveSegments(_, _, _)
ResolveSegments(segs, i, stack) ==
  IF i > Len(segs) THEN stack
  ELSE IF segs[i] \in {<<>>, <<".">>} THEN ResolveSegments(segs, i + 1, stack)
  ELSE IF segs[i] = <<".", ".">>
       THEN ResolveSegments(segs, i + 1, SubSeq(stack, 1, Len(stack) - 1))
  ELSE ResolveSegments(segs, i + 1, Append(stack, segs[i]))

\* path.normalize of an absolute path; a trailing slash is kept
NormalizePath(s) ==
  LET stack == ResolveSegments(SplitSegments(s, 1, <<>>), 1, <<>>)
      body == Concat([i \in 1..Len(stack) |-> <<Slash>> \o stack[i]])
  IN IF stack = <<>> THEN <<Slash>>
     ELSE IF s[Len(s)] = Slash THEN body \o <<Slash>> ELSE body

\* path.join(dir, name), dir absolute
PathJoin(dir, name) == NormalizePath(IF name = <<>> THEN dir ELSE dir \o <<Slash>> \o name)

\* GENERATED_DIR = path.join(process.cwd(), "generated")
GENERATED_DIR == PathJoin(Cwd, <<"g","e","n","e","r","a","t","e","d">>)

\* UPLOAD_DIR = path.join(process.cwd(), "public", "uploads")
UPLOAD_DIR == PathJoin(Cwd, <<"p","u","b","l","i","c","/","u","p","l","o","a","d","s">>)

\* the files of the file system: the blobs of the two directories and the
\* files outside them
Files ==
  {[path |-> GENERATED_DIR \o <<Slash>> \o e.key, bytes |-> e.bytes] : e \in store}
    \cup {[path |-> UPLOAD_DIR \o <<Slash>> \o e.key, bytes |-> e.bytes] : e \in uploadStore}
    \cup fsOutside

(***************************************************************************)
(* POST /api/chat: the request body and its schema.                        *)
(***************************************************************************)
JArr(s) == [t |-> "arr", v |-> s]

Roles == {"system", "user", "assistant"}

ChatMsg(id, role, text) == JObj([id |-> JStr(id), role |-> JStr(role), text |-> JStr(text)])

Categories == {"image", "text", "other"}

\* attachmentSchema
attachmentSchemaOk(a) ==
  /\ a.t = "obj"
  /\ \A k \in {"id", "originalName", "storedFilename", "mimeType", "publicUrl"} :
        Field(a, k).t = "str"
  /\ Field(a, "size").t = "num"
  /\ Field(a, "category").t = "str" /\ Field(a, "category").v \in Categories
  /\ Field(a, "textPreview").t \in {"undef", "str"}

\* messageSchema without the enum of the role
messageSchemaOk_AnyRole(m) ==
  /\ m.t = "obj"
  /\ Field(m, "id").t = "str"
  /\ Field(m, "role").t = "str"
  /\ Field(m, "text").t = "str" /\ Len(Field(m, "text").v) >= 1
  /\ \/ Field(m, "attachments") = Undef
     \/ /\ Field(m, "attachments").t = "arr"
        /\ \A i \in 1..Len(Field(m, "attachments").v) :
              attachmentSchemaOk(Field(m, "attachments").v[i])

\* messageSchema
messageSchemaOk(m) ==
  /\ m.t = "obj"
  /\ Field(m, "id").t = "str"
  /\ Field(m, "role").t = "str" /\ Field(m, "role").v \in Roles
  /\ Field(m, "text").t = "str" /\ Len(Field(m, "text").v) >= 1
  /\ \/ Field(m, "attachments") = Undef
     \/ /\ Field(m, "attachments").t = "arr"
        /\ \A i \in 1..Len(Field(m, "attachments").v) :
              attachmentSchemaOk(Field(m, "attachments").v[i])

\* the limits of temperature, in tenths
MinTemperature == 0
MaxTemperature == 20
DefaultTemperature == 4

\* requestSchema
requestSchemaOk(b) ==
  /\ b.t = "obj"
  /\ Field(b, "messages").t = "arr"
  /\ Len(Field(b, "messages").v) >= 1
  /\ \A i \in 1..Len(Field(b, "messages").v) : messageSchemaOk(Field(b, "messages").v[i])
  /\ \/ Field(b, "temperature") = Undef
     \/ /\ Field(b, "temperature").t = "num"
        /\ Field(b, "temperature").v >= MinTemperature
        /\ Field(b, "temperature").v <= MaxTemperature

BodyHello ==
  JsonText(JObj([messages |-> JArr(<< ChatMsg(<<"m1">>, "system", <<"You are a studio">>),
                                      ChatMsg(<<"m2">>, "user", <<"Make me a CSV of 1,2,3">>) >>)]))

\* the bodies the concurrent requests are posted with
ChatBodies == {BodyHello, Malformed}

(***************************************************************************)
(* lib/fileClassification.ts.  A MIME type is <<type, subtype>>, standing   *)
(* for "type/subtype"; the empty string is <<>>.                            *)
(***************************************************************************)
EndsWith(s, suffix) ==
  Len(suffix) <= Len(s) /\ SubSeq(s, Len(s) - Len(suffix) + 1, Len(s)) = suffix

\* "text/" is <<"text", "">>
TEXT_MIME_PREFIXES ==
  { <<"text", "">>, <<"application", "json">>, <<"application", "xml">>,
    <<"application", "yaml">> }

TEXT_EXTENSIONS == { <<".","m","d">>, <<".","c","s","v">>, <<".","t","s","v">>,
                     <<".","l","o","g">> }

\* the file name is asked only when there is no MIME type
isTextLikeFile(mimeType, filename) ==
  IF mimeType = <<>> THEN \E ext \in TEXT_EXTENSIONS : EndsWith(filename, ext)
  ELSE IF mimeType[1] = "text" THEN TRUE
  ELSE mimeType \in TEXT_MIME_PREFIXES

isImage(mimeType) == mimeType # <<>> /\ mimeType[1] = "image"

(***************************************************************************)
(* Buffers.  The bytes of an uploaded file are a sequence of 0..255.        *)
(***************************************************************************)
Base64Alphabet ==
  <<"A","B","C","D","E","F","G","H","I","J","K","L","M","N","O","P","Q","R","S","T","U",
    "V","W","X","Y","Z","a","b","c","d","e","f","g","h","i","j","k","l","m","n","o","p",
    "q","r","s","t","u","v","w","x","y","z","0","1","2","3","4","5","6","7","8","9","+","/">>

\* buffer.toString("base64")
Base64(bytes) ==
  LET n == Len(bytes)
      b(i) == IF i <= n THEN bytes[i] ELSE 0
      Quad(g, v) ==
        << Base64Alphabet[(v \div 262144) + 1],
           Base64Alphabet[((v \div 4096) % 64) + 1],
           IF 3 * g - 1 > n THEN "=" ELSE Base64Alphabet[((v \div 64) % 64) + 1],
           IF 3 * g > n THEN "=" ELSE Base64Alphabet[(v % 64) + 1] >>
  IN Concat([g \in 1..((n + 2) \div 3) |->
               Quad(g, b(3 * g - 2) * 65536 + b(3 * g - 1) * 256 + b(3 * g))])

ReplacementChar == "\\uFFFD"

\* the character of a byte below 128
AsciiChar(byte) ==
  CASE byte = 49 -> "1" [] byte = 50 -> "2" [] byte = 51 -> "3" [] byte = 44 -> ","
    [] byte = 10 -> "\n" [] byte = 32 -> " " [] byte = 97 -> "a" [] byte = 98 -> "b"
    [] OTHER -> "?"

\* buffer.toString("utf-8"): a well-formed sequence gives its character, any
\* other byte the replacement character
Utf8Decode(bytes) ==
  LET At(i) ==
        IF bytes[i] < 128 THEN AsciiChar(bytes[i])
        ELSE IF bytes[i] = 195 /\ i < Len(bytes) /\ bytes[i + 1] = 169 THEN "e'"
        ELSE IF bytes[i] = 169 /\ i > 1 /\ bytes[i - 1] = 195 THEN ""
        ELSE ReplacementChar
  IN SelectSeq([i \in 1..Len(bytes) |-> At(i)], LAMBDA c : c # "")

(***************************************************************************)
(* function buildAzureInput.  A text is a tuple of pieces where the code    *)
(* puts it together from a template.                                        *)
(***************************************************************************)
\* readFile finding a file at every path
readFile_AlwaysThere(fullPath) == [ok |-> TRUE, bytes |-> [format |-> "raw", body |-> <<>>]]

\* readFile(fullPath)
readFile(fullPath) ==
  IF \E f \in Files : f.path = fullPath
  THEN [ok |-> TRUE, bytes |-> (CHOOSE f \in Files : f.path = fullPath).bytes]
  ELSE [ok |-> FALSE, bytes |-> [format |-> "raw", body |-> <<>>]]

\* function mapAttachmentToContentPart
mapAttachmentToContentPart(attachment) ==
  LET originalName == Field(attachment, "originalName").v
      mimeType == Field(attachment, "mimeType").v
      Loaded(file) ==
        IF ~file.ok
        THEN [type |-> "input_text",
              text |-> <<"Attachment \"", originalName,
                         "\" could not be loaded from the server.">>]
        ELSE IF Field(attachment, "category").v = "image"
        THEN [type |-> "input_image",
              image_url |-> <<"data:", mimeType, ";base64,", Base64(file.bytes.body)>>]
        ELSE IF \/ Field(attachment, "category").v = "text"
                \/ isTextLikeFile(mimeType, originalName)
        THEN [type |-> "input_text",
              text |-> <<"File Name: ", originalName, "\nMIME Type: ", mimeType,
                         "\n\nContents:\n", Utf8Decode(file.bytes.body)>>]
        ELSE [type |-> "input_text",
              text |-> <<"Attached file \"", originalName, "\" (", mimeType, ", ",
                         Field(attachment, "size").v, " bytes) is stored at ",
                         Field(attachment, "publicUrl").v,
                         ". Describe how you want to handle this file.">>]
  IN Loaded(readFile(PathJoin(UPLOAD_DIR, Field(attachment, "storedFilename").v)))

\* attachments read at once, per message
MaxAttachments == 2

\* the orders the reads of a message's attachments may complete in
CompletionOrders ==
  {o \in [1..MaxAttachments -> 1..MaxAttachments] :
     \A i, j \in 1..MaxAttachments : i # j => o[i] # o[j]}

\* the promises of 1..n settling in this order
Settled(order, n) == SelectSeq(order, LAMBDA i : i <= n)

\* PromiseAll resolving to the values in the order the promises settled
PromiseAll_AsSettled(values, order) ==
  [k \in 1..Len(values) |-> values[Settled(order, Len(values))[k]]]

\* Promise.all: each value is put at the index of its promise as the promise
\* settles, and the array is the result once all have settled
RECURSIVE PromiseAllFrom(_, _, _)
PromiseAllFrom(values, settled, slots) ==
  IF settled = <<>> THEN slots
  ELSE PromiseAllFrom(values, Tail(settled),
                      [slots EXCEPT ![Head(settled)] = values[Head(settled)]])

PromiseAll(values, order) ==
  PromiseAllFrom(values, Settled(order, Len(values)), [i \in 1..Len(values) |-> Undef])

\* message.attachments, [] when absent
AttachmentsOf(message) ==
  IF Field(message, "attachments") = Undef THEN <<>> ELSE Field(message, "attachments").v

\* function buildAzureInput
buildAzureInput(messages, order) ==
  [i \in 1..Len(messages) |->
     [role |-> Field(messages[i], "role").v,
      content |->
        << [type |-> IF Field(messages[i], "role").v = "assistant"
                     THEN "output_text" ELSE "input_text",
            text |-> Field(messages[i], "text").v] >>
        \o PromiseAll([k \in 1..Len(AttachmentsOf(messages[i])) |->
                         mapAttachmentToContentPart(AttachmentsOf(messages[i])[k])],
                      order)]]

\* function getFunctionTools: the names of the declared tools
getFunctionTools == {"create_artifact", "create_document"}

\* extractAssistantText returning the last text block instead of the first
extractAssistantText_Last(response) ==
  LET texts == Concat([i \in 1..Len(response.output) |->
                 IF response.output[i].type # "message" THEN <<>>
                 ELSE SelectSeq(response.output[i].content,
                                LAMBDA c : c.type = "output_text")])
  IN IF texts = <<>> THEN <<>> ELSE texts[Len(texts)].text

\* function extractAssistantText
extractAssistantText(response) ==
  LET texts == Concat([i \in 1..Len(response.output) |->
                 IF response.output[i].type # "message" THEN <<>>
                 ELSE SelectSeq(response.output[i].content,
                                LAMBDA c : c.type = "output_text")])
  IN IF texts = <<>> THEN <<>> ELSE texts[1].text

(***************************************************************************)
(* function handleToolCalls.  The for loop runs over response.output, one  *)
(* item after the other, each executor awaited before the next item; acc   *)
(* carries what the loop has built: the tool outputs, the two accumulators *)
(* of the request, the generated-files directory, the ids handed out, the  *)
(* executors run (execLog) and whether an executor threw.  failAt is the   *)
(* index of the item whose writeFile fails (0: every write succeeds).      *)
(***************************************************************************)
ToolOutput(call_id, result) ==
  [type |-> "function_call_output", call_id |-> call_id, output |-> Stringify(result)]

\* Falsy testing for the empty string alone: call_id === ""
Falsy_EmptyOnly(call_id) == call_id = ""

\* !call_id
Falsy(call_id) == call_id \in {"", NoCallId}

\* args ?? "{}"
OrEmptyObject(args) == IF args.raw = "absent" THEN JsonText(EmptyObj) ELSE args

\* the body of the for loop, on one item of response.output
HandleItem(item, writeOk, acc) ==
  LET ran == Append(acc.execLog, [name |-> item.name, call_id |-> item.call_id])
      AfterArtifact(art) ==
        [acc EXCEPT !.artifacts = art.artifacts, !.execLog = ran,
                    !.nextUuid = IF art.ok THEN @ + 1 ELSE @,
                    !.toolOutputs = Append(@, ToolOutput(item.call_id, art.result))]
      AfterDocument(doc) ==
        IF doc.ok /\ ~writeOk
        THEN \* createDocumentFile throws after randomUUID(), nothing is written
          [acc EXCEPT !.execLog = ran, !.nextUuid = @ + 1, !.threw = TRUE]
        ELSE
          [acc EXCEPT !.generatedFiles = doc.generatedFiles, !.execLog = ran,
                      !.nextUuid = IF doc.ok THEN @ + 1 ELSE @,
                      !.store = IF doc.ok THEN WriteBlob(@, doc.key, doc.buffer) ELSE @,
                      !.toolOutputs = Append(@, ToolOutput(item.call_id, doc.result))]
  IN
  IF item.type # "function_call" THEN acc
  ELSE IF Falsy(item.call_id) THEN acc
  ELSE IF item.name = "create_artifact" THEN
    AfterArtifact(executeCreateArtifact(OrEmptyObject(item.arguments), acc.artifacts,
                                        Uuid(acc.nextUuid + 1)))
  ELSE IF item.name = "create_document" THEN
    AfterDocument(executeCreateDocument(OrEmptyObject(item.arguments), acc.generatedFiles,
                                        Uuid(acc.nextUuid + 1)))
  ELSE
    [acc EXCEPT !.toolOutputs =
       Append(@, ToolOutput(item.call_id,
                            [error |-> JStr(<<"Unknown function: ", item.name>>)]))]

RECURSIVE ToolLoop(_, _, _, _)
ToolLoop(output, i, failAt, acc) ==
  IF i > Len(output) \/ acc.threw THEN acc
  ELSE ToolLoop(output, i + 1, failAt, HandleItem(output[i], i # failAt, acc))

handleToolCalls(response, artifacts, generatedFiles, dir, uuids, execLog, failAt) ==
  ToolLoop(response.output, 1, failAt,
           [toolOutputs |-> <<>>, artifacts |-> artifacts, generatedFiles |-> generatedFiles,
            store |-> dir, nextUuid |-> uuids, execLog |-> execLog, threw |-> FALSE])

(***************************************************************************)
(* The state of one chat request: where POST stands (pc) and the locals    *)
(* of runResponsesCall.  calls, handled and execLog record what the        *)
(* request did: the backend calls it made, the responses it handled with   *)
(* the tool outputs of each, and the executors it ran.                     *)
(***************************************************************************)
NoResponse == [id |-> 0, output |-> <<>>]
NoMessage == [id |-> <<>>, role |-> "", text |-> <<>>, artifacts |-> <<>>, generatedFiles |-> <<>>]

InitReq ==
  [pc |-> "idle", request |-> Absent, status |-> 0, error |-> "", details |-> "",
   calls |-> <<>>, response |-> NoResponse,
   toolCallOutputs |-> <<>>, artifacts |-> <<>>, generatedFiles |-> <<>>,
   handled |-> <<>>, execLog |-> <<>>, message |-> NoMessage]

\* the errors a backend call may reject with, and the error of writeFile
BackendErrors == {"Connection error.", "429 Rate limit reached"}
WriteFailure == "EACCES: permission denied"

\* NextResponse.json({error}, {status})
ErrorResponse(q, status, error) == [q EXCEPT !.pc = "done", !.status = status, !.error = error]

\* FailureResponse answering without the message of the error
FailureResponse_NoDetails(q, message) ==
  ErrorResponse(q, 500, "Failed to generate a response from Azure OpenAI.")

\* the catch of POST: 500 with details: {message: error.message}
FailureResponse(q, message) ==
  [ErrorResponse(q, 500, "Failed to generate a response from Azure OpenAI.")
     EXCEPT !.details = message]

\* the first responses.create of runResponsesCall
FirstCall(body, order) ==
  [previous_response_id |-> 0,
   input |-> buildAzureInput(Field(body, "messages").v, order),
   temperature |-> IF Field(body, "temperature") = Undef THEN DefaultTemperature
                   ELSE Field(body, "temperature").v,
   tools |-> getFunctionTools]

\* ContinuationCall without the reference to the previous response
ContinuationCall_NoPrevious(response, toolCallOutputs) ==
  [previous_response_id |-> 0, input |-> toolCallOutputs, temperature |-> -1, tools |-> {}]

\* the responses.create of the while loop
ContinuationCall(response, toolCallOutputs) ==
  [previous_response_id |-> response.id, input |-> toolCallOutputs,
   temperature |-> -1, tools |-> {}]

\* LoopContinues going round only for two or more outputs: length > 1
LoopContinues_MoreThanOne(toolCallOutputs) == Len(toolCallOutputs) > 1

\* while (toolCallOutputs.length)
LoopContinues(toolCallOutputs) == Len(toolCallOutputs) # 0

\* ChatMessage without the generated files of the request
ChatMessage_NoFiles(id, response, artifacts, generatedFiles) ==
  [id |-> id, role |-> "assistant", text |-> extractAssistantText(response),
   artifacts |-> artifacts, generatedFiles |-> <<>>]

\* the assistant message POST answers with
ChatMessage(id, response, artifacts, generatedFiles) ==
  [id |-> id, role |-> "assistant", text |-> extractAssistantText(response),
   artifacts |-> artifacts, generatedFiles |-> generatedFiles]

\* PostStage looking at the body before it looks at the environment
PostStage_BodyFirst(envOk, body) ==
  IF body.raw # "json" THEN "parse"
  ELSE IF ~requestSchemaOk(body.val) THEN "schema"
  ELSE IF ~envOk THEN "config"
  ELSE "run"

\* how far POST gets: it answers at the check of the environment ("config"),
\* at request.json() ("parse"), at requestSchema.parse ("schema"), or goes on
\* to runResponsesCall ("run")
PostStage(envOk, body) ==
  IF ~envOk THEN "config"
  ELSE IF body.raw # "json" THEN "parse"
  ELSE IF ~requestSchemaOk(body.val) THEN "schema"
  ELSE "run"

\* function POST, up to the first backend call of runResponsesCall; order is
\* the order the reads of a message's attachments complete in
Post(r, body) ==
  LET Staged(stage) ==
        /\ dirsCreated' = (dirsCreated \/ stage # "config")
        /\ \E order \in CompletionOrders :
             reqs' = [reqs EXCEPT ![r] =
               IF stage = "config"
               THEN ErrorResponse([@ EXCEPT !.request = body], 500,
                                  "Azure OpenAI environment variables are not configured.")
               ELSE IF stage = "parse"
               THEN ErrorResponse([@ EXCEPT !.request = body], 400,
                                  "Unable to parse request payload.")
               ELSE IF stage = "schema"
               THEN ErrorResponse([@ EXCEPT !.request = body], 400,
                                  "Invalid request payload.")
               ELSE [@ EXCEPT !.request = body, !.pc = "calling",
                              !.calls = <<FirstCall(body.val, order)>>]]
  IN
  /\ reqs[r].pc = "idle"
  /\ Staged(PostStage(envConfigured, body))
  /\ UNCHANGED <<envConfigured, store, nextUuid, backendCalls, getVars, clientVars,
                 uploadVars>>

\* the backend answers the pending call with a response: handleToolCalls runs
\* on it, then the while loop of runResponsesCall goes round with a
\* continuation call, or ends and POST answers 200; an executor that throws
\* makes POST answer 500
BackendRespond(r, output, failAt) ==
  LET q == reqs[r]
      response == [id |-> backendCalls + 1, output |-> output]
      Handled(acc) ==
        LET after == [q EXCEPT !.response = response, !.artifacts = acc.artifacts,
                               !.generatedFiles = acc.generatedFiles,
                               !.execLog = acc.execLog]
            seen == [after EXCEPT !.toolCallOutputs = acc.toolOutputs,
                                  !.handled = Append(@, [response |-> response,
                                                         outputs |-> acc.toolOutputs])]
        IN
        /\ store' = acc.store
        /\ IF acc.threw THEN
             /\ reqs' = [reqs EXCEPT ![r] =
                  FailureResponse(after, WriteFailure)]
             /\ nextUuid' = acc.nextUuid
           ELSE IF LoopContinues(acc.toolOutputs) THEN
             /\ reqs' = [reqs EXCEPT ![r] =
                  [seen EXCEPT !.calls = Append(@, ContinuationCall(response,
                                                                   acc.toolOutputs))]]
             /\ nextUuid' = acc.nextUuid
           ELSE
             /\ reqs' = [reqs EXCEPT ![r] =
                  [seen EXCEPT !.pc = "done", !.status = 200,
                               !.message = ChatMessage(Uuid(acc.nextUuid + 1), response,
                                                       acc.artifacts, acc.generatedFiles)]]
             /\ nextUuid' = acc.nextUuid + 1
  IN
  /\ q.pc = "calling"
  /\ backendCalls < MaxBackendCalls
  /\ backendCalls' = backendCalls + 1
  /\ Handled(handleToolCalls(response, q.artifacts, q.generatedFiles, store, nextUuid,
                             q.execLog, failAt))
  /\ UNCHANGED <<envConfigured, dirsCreated, getVars, clientVars, uploadVars>>

\* the pending call rejects with an error of this message: nothing catches
\* it before the catch of POST
BackendFail(r, message) ==
  /\ reqs[r].pc = "calling"
  /\ reqs' = [reqs EXCEPT ![r] = FailureResponse(@, message)]
  /\ UNCHANGED <<envConfigured, store, nextUuid, backendCalls, dirsCreated, getVars,
                 clientVars, uploadVars>>

(***************************************************************************)
(* GET /api/generated/[file]                                               *)
(***************************************************************************)

\* path.basename, then path.extname: from the last dot of the last segment,
\* unless that dot is its first character
LastSegment(s) ==
  LET segs == SelectSeq(SplitSegments(s, 1, <<>>), LAMBDA x : x # <<>>)
  IN IF segs = <<>> THEN <<>> ELSE segs[Len(segs)]

ExtName(s) ==
  LET base == LastSegment(s)
      dots == {i \in 1..Len(base) : base[i] = "."}
      last == CHOOSE i \in dots : \A k \in dots : k <= i
  IN IF dots = {} \/ base = <<".", ".">> THEN <<>>
     ELSE IF last = 1 THEN <<>>
     ELSE SubSeq(base, last, Len(base))

UpperSeq == <<"A","B","C","D","E","F","G","H","I","J","K","L","M",
              "N","O","P","Q","R","S","T","U","V","W","X","Y","Z">>
LowerSeq == <<"a","b","c","d","e","f","g","h","i","j","k","l","m",
              "n","o","p","q","r","s","t","u","v","w","x","y","z">>

\* String.prototype.toLowerCase
ToLowerCase(s) ==
  [i \in 1..Len(s) |->
     IF s[i] \in Upper THEN LowerSeq[CHOOSE k \in 1..Len(UpperSeq) : UpperSeq[k] = s[i]]
     ELSE s[i]]

\* MimeType without the table: the default for every extension
MimeType_Default(extension) == "application/octet-stream"

\* MIME_MAP[extension] ?? "application/octet-stream"
MimeType(extension) ==
  CASE extension = <<".","p","d","f">> -> "application/pdf"
    [] extension = <<".","d","o","c","x">> ->
         "application/vnd.openxmlformats-officedocument.wordprocessingml.document"
    [] extension = <<".","t","x","t">> -> "text/plain; charset=utf-8"
    [] extension = <<".","c","s","v">> -> "text/csv; charset=utf-8"
    [] extension = <<".","m","d">> -> "text/markdown; charset=utf-8"
    [] OTHER -> "application/octet-stream"

\* storedFilename.replace(/^[^-]+-/, ""): what stands before the first
\* hyphen goes with it, when something stands before it
StripIdPrefix(name) ==
  LET hyphens == {i \in 1..Len(name) : name[i] = Hyphen}
      first == CHOOSE i \in hyphens : \A k \in hyphens : i <= k
  IN IF hyphens = {} THEN name
     ELSE IF first = 1 THEN name
     ELSE SubSeq(name, first + 1, Len(name))


\* the directories: those above a file, and the generated-files directory
RECURSIVE Ancestors(_)
Ancestors(segs) ==
  IF segs = <<>> THEN {<<Slash>>}
  ELSE {Concat([i \in 1..Len(segs) |-> <<Slash>> \o segs[i]])}
         \cup Ancestors(SubSeq(segs, 1, Len(segs) - 1))

Directories ==
  UNION {Ancestors(ResolveSegments(SplitSegments(f.path, 1, <<>>), 1, <<>>)) \ {f.path}
           : f \in Files}
    \cup Ancestors(ResolveSegments(SplitSegments(GENERATED_DIR, 1, <<>>), 1, <<>>))

WithoutTrailingSlash(s) ==
  IF Len(s) > 1 /\ s[Len(s)] = Slash THEN SubSeq(s, 1, Len(s) - 1) ELSE s

\* stat(fullPath) resolves
StatOk(fullPath) ==
  \/ \E f \in Files : f.path = fullPath
  \/ WithoutTrailingSlash(fullPath) \in Directories

\* the check of GET against path traversal: fullPath.startsWith(GENERATED_DIR)
StartsWithGeneratedDir(fullPath) == IsPrefix(GENERATED_DIR, fullPath)

GetResponse(file, status, body, contentType, disposition) ==
  [file |-> file, status |-> status, body |-> body, contentType |-> contentType,
   disposition |-> disposition]

\* function GET; readFile of a directory rejects, which the route does not
\* catch: the framework answers 500
GET(file) ==
  LET fullPath == PathJoin(GENERATED_DIR, file)
  IN IF ~StartsWithGeneratedDir(fullPath)
     THEN GetResponse(file, 400, <<"Invalid file path">>, "", <<>>)
     ELSE IF ~StatOk(fullPath)
     THEN GetResponse(file, 404, <<"File not found">>, "", <<>>)
     ELSE IF \E f \in Files : f.path = fullPath
     THEN GetResponse(file, 200, (CHOOSE f \in Files : f.path = fullPath).bytes,
                      MimeType(ToLowerCase(ExtName(file))), StripIdPrefix(file))
     ELSE GetResponse(file, 500, <<>>, "", <<>>)

Get(file) ==
  /\ getResp' = GET(file)
  /\ UNCHANGED <<chatVars, fsOutside, clientVars, uploadVars>>

\* the files outside the generated-files directory a deployment may hold
SecretTxt == [path |-> <<"/","a","p","p","/","s","e","c","r","e","t",".","t","x","t">>,
              bytes |-> [format |-> "raw", body |-> <<115, 51, 99>>]]
OldNotes ==
  [path |-> <<"/","a","p","p","/","g","e","n","e","r","a","t","e","d","-","o","l","d","/",
              "n","o","t","e","s",".","T","X","T">>,
   bytes |-> [format |-> "raw", body |-> <<111, 108, 100, 33>>]]
Passwd == [path |-> <<"/","e","t","c","/","p","a","s","s","w","d">>,
           bytes |-> [format |-> "raw", body |-> <<114, 111, 111, 116, 58, 120>>]]

OutsideFiles == {SecretTxt, OldNotes, Passwd}

UpTo == <<".",".","/">>

\* values of the file parameter, decoded: stored keys, a missing file, the
\* directory itself, and paths with ".." segments
FileParams ==
  { Uuid(1) \o <<Hyphen>> \o Numbers \o EXTENSION_MAP.csv,
    Uuid(2) \o <<Hyphen>> \o <<"m","y","_","r">> \o EXTENSION_MAP.docx,
    <<"s","u","b","/">> \o UpTo \o Uuid(1) \o <<Hyphen>> \o Numbers \o EXTENSION_MAP.csv,
    <<"m","i","s","s","i","n","g",".","t","x","t">>,
    <<".">>,
    UpTo \o <<"s","e","c","r","e","t",".","t","x","t">>,
    UpTo \o UpTo \o <<"e","t","c","/","p","a","s","s","w","d">>,
    UpTo \o <<"g","e","n","e","r","a","t","e","d","-","o","l","d","/",
              "n","o","t","e","s",".","T","X","T">>,
    UpTo \o <<"g","e","n","e","r","a","t","e","d","-","o","l","d">>,
    UpTo \o UpTo \o UpTo \o <<"a","p","p","/","g","e","n","e","r","a","t","e","d","/">>
      \o Uuid(1) \o <<Hyphen>> \o Numbers \o EXTENSION_MAP.csv }

\* the generated-files directory after create_document has run on the first
\* n of these arguments
StoredDocuments == <<DocArgsNumbers, DocArgsReport>>

RECURSIVE StoreAfter(_)
StoreAfter(n) ==
  IF n = 0 THEN {}
  ELSE LET done == executeCreateDocument(StoredDocuments[n], <<>>, Uuid(n))
       IN WriteBlob(StoreAfter(n - 1), done.key, done.buffer)

(***************************************************************************)
(* POST /api/upload.  An entry of the form is a File [name, type, bytes]   *)
(* or a plain field; the handler saves the files one after the other,      *)
(* each write awaited, and answers with the metadata of all of them.       *)
(***************************************************************************)
MAX_TEXT_PREVIEW == 8000

FileEntry(name, type, bytes) == [kind |-> "file", name |-> name, type |-> type, bytes |-> bytes]
FieldEntry == [kind |-> "field", name |-> <<>>, type |-> <<>>, bytes |-> <<>>]

\* "\n...\n[truncated preview]"
TruncationMarker ==
  <<"\n", ".", ".", ".", "\n", "[", "t","r","u","n","c","a","t","e","d", " ",
    "p","r","e","v","i","e","w", "]">>

\* the category of a file
Category(type, safeOriginalName) ==
  IF isImage(type) THEN "image"
  ELSE IF isTextLikeFile(type, safeOriginalName) THEN "text"
  ELSE "other"

\* the preview of a text file
TextPreview(bytes) ==
  LET Capped(text) ==
        IF Len(text) > MAX_TEXT_PREVIEW
        THEN SubSeq(text, 1, MAX_TEXT_PREVIEW) \o TruncationMarker
        ELSE text
  IN Capped(Utf8Decode(bytes))

\* UploadKey without the id
UploadKey_NameOnly(fileId, safeName) == safeName

\* `${fileId}-${safeName}`
UploadKey(fileId, safeName) == fileId \o <<Hyphen>> \o safeName

\* the metadata pushed for an entry saved under fileId
UploadedFileMetadata(entry, fileId) ==
  LET Named(safeOriginalName, storedFilename) ==
        [id |-> fileId, originalName |-> safeOriginalName,
         storedFilename |-> storedFilename,
         mimeType |-> entry.type, size |-> Len(entry.bytes),
         publicUrl |-> <<"/","u","p","l","o","a","d","s","/">> \o storedFilename,
         category |-> Category(entry.type, safeOriginalName),
         textPreview |-> IF Category(entry.type, safeOriginalName) = "text"
                         THEN JStr(TextPreview(entry.bytes)) ELSE Undef]
  IN Named(LastSegment(entry.name),
           UploadKey(fileId, ReplaceUnsafe(LastSegment(entry.name))))

\* the index of the first File entry from i on, Len(entries) + 1 if none
NextFile(entries, i) ==
  LET files == {j \in i..Len(entries) : entries[j].kind = "file"}
  IN IF files = {} THEN Len(entries) + 1 ELSE CHOOSE j \in files : \A k \in files : j <= k

\* function POST of the upload route, up to the first write
UploadPost(u, entries) ==
  /\ uploadReqs[u].pc = "idle"
  /\ IF entries = <<>>
     THEN /\ uploadReqs' = [uploadReqs EXCEPT ![u] = [@ EXCEPT !.pc = "done", !.status = 400]]
          /\ UNCHANGED dirsCreated
     ELSE /\ dirsCreated' = TRUE
          /\ uploadReqs' = [uploadReqs EXCEPT ![u] =
               IF NextFile(entries, 1) > Len(entries)
               THEN [@ EXCEPT !.pc = "done", !.status = 201, !.entries = entries]
               ELSE [@ EXCEPT !.pc = "saving", !.entries = entries,
                              !.next = NextFile(entries, 1)]]
  /\ UNCHANGED <<envConfigured, reqs, store, nextUuid, backendCalls, uploadStore,
                 getVars, clientVars>>

\* one round of the loop: the next file is saved and its metadata pushed;
\* after the last file POST answers 201
UploadSave(u) ==
  LET q == uploadReqs[u]
      Saved(meta) ==
        /\ uploadStore' = WriteBlob(uploadStore, meta.storedFilename,
                                    [format |-> "raw", body |-> q.entries[q.next].bytes])
        /\ uploadReqs' = [uploadReqs EXCEPT ![u] =
             IF NextFile(q.entries, q.next + 1) > Len(q.entries)
             THEN [@ EXCEPT !.pc = "done", !.status = 201,
                            !.uploads = Append(@, meta), !.next = Len(q.entries) + 1]
             ELSE [@ EXCEPT !.uploads = Append(@, meta),
                            !.next = NextFile(q.entries, q.next + 1)]]
  IN
  /\ q.pc = "saving"
  /\ nextUuid' = nextUuid + 1
  /\ Saved(UploadedFileMetadata(q.entries[q.next], Uuid(nextUuid + 1)))
  /\ UNCHANGED <<envConfigured, reqs, store, backendCalls, dirsCreated, getVars, clientVars>>

(***************************************************************************)
(* The page (app/page.tsx): the artifacts of the messages it holds, the    *)
(* artifact selected for the modal, and what it renders of them.           *)
(***************************************************************************)
\* artifacts the page holds at most
MaxClientArtifacts == 3

NoArtifact == [id |-> <<>>, title |-> <<>>, description |-> Undef,
               previewHtml |-> <<>>, fullHtml |-> <<>>]

\* the artifacts of the assistant messages /api/chat answers with
ServerArtifacts ==
  {executeCreateArtifact(args, <<>>, Uuid(n)).artifacts[1] :
     args \in {ArtifactArgsFull, ArtifactArgsPlain}, n \in 1..2}

\* handleSubmit, the response being ok: setMessages((prev) => [...prev, data.message])
ReceiveMessage(artifacts) ==
  /\ Len(clientArtifacts) + Len(artifacts) <= MaxClientArtifacts
  /\ clientArtifacts' = clientArtifacts \o artifacts
  /\ UNCHANGED <<selectedArtifact, clientMessages, sending, chatVars, getVars, uploadVars>>

\* the onClick of an ArtifactCard: setSelectedArtifact(artifact)
SelectArtifact(i) ==
  /\ i \in 1..Len(clientArtifacts)
  /\ selectedArtifact' = clientArtifacts[i]
  /\ UNCHANGED <<clientArtifacts, clientMessages, sending, chatVars, getVars, uploadVars>>

\* the Close button of ArtifactModal: setSelectedArtifact(null)
CloseModal ==
  /\ selectedArtifact # NoArtifact
  /\ selectedArtifact' = NoArtifact
  /\ UNCHANGED <<clientArtifacts, clientMessages, sending, chatVars, getVars, uploadVars>>

\* the messages state of Home at the start: the system prompt
SystemMessage ==
  [id |-> <<"c", "0">>, role |-> "system", text |-> <<"You are Azure Artifact Studio">>]

\* createMessageId() of the page, for the n-th message it creates
createMessageId(n) == <<"c", HexDigits[n]>>

NotSending == [request |-> 0, body |-> Absent]

\* the request the next fetch of /api/chat becomes
NextRequest ==
  LET idle == {r \in Requests : reqs[r].pc = "idle"}
  IN IF idle = {} THEN 0 ELSE CHOOSE r \in idle : \A k \in idle : r <= k

\* JSON.stringify(payload): id, role, text and attachments of every message,
\* a key of value undefined left out
PayloadOf(conversation) ==
  JsonText(JObj([messages |-> JArr([i \in 1..Len(conversation) |->
    JObj([k \in {"id", "role", "text"} \cup (DOMAIN conversation[i] \cap {"attachments"}) |->
            IF k = "attachments" THEN JArr(conversation[i].attachments)
            ELSE JStr(conversation[i][k])])])]))

\* handleSubmit up to the fetch: the user message joins the conversation and
\* the conversation is sent; no attachment is pending
HandleSubmit(input) ==
  LET Sent(conversation) ==
        /\ clientMessages' = conversation
        /\ sending' = [request |-> NextRequest, body |-> PayloadOf(conversation)]
  IN
  /\ Trim(input) # <<>>
  /\ sending = NotSending
  /\ NextRequest # 0
  /\ Sent(Append(clientMessages,
                 [id |-> createMessageId(Len(clientMessages)), role |-> "user",
                  text |-> Trim(input), attachments |-> <<>>]))
  /\ UNCHANGED <<clientArtifacts, selectedArtifact, chatVars, getVars, uploadVars>>

\* the fetch reaches the chat route
Fetch ==
  /\ sending # NotSending
  /\ Post(sending.request, sending.body)

\* handleSubmit after the fetch: the message of an ok response joins the
\* conversation, any other response only sets the error
HandleResponse ==
  /\ sending # NotSending
  /\ reqs[sending.request].pc = "done"
  /\ clientMessages' = IF reqs[sending.request].status = 200
                       THEN Append(clientMessages, reqs[sending.request].message)
                       ELSE clientMessages
  /\ sending' = NotSending
  /\ UNCHANGED <<clientArtifacts, selectedArtifact, chatVars, getVars, uploadVars>>

\* ArtifactCard: what dangerouslySetInnerHTML puts into the host page, per card
InlineHtml == [i \in 1..Len(clientArtifacts) |-> clientArtifacts[i].previewHtml]

\* the sandbox attribute of the iframe of ArtifactModal
SandboxTokens == {"allow-scripts", "allow-forms", "allow-pointer-lock", "allow-same-origin"}

NoFrame == [srcDoc |-> <<>>, sandbox |-> {}]

\* ArtifactModal: the iframe it renders, none without a selected artifact
ModalFrame ==
  IF selectedArtifact = NoArtifact THEN NoFrame
  ELSE [srcDoc |-> selectedArtifact.fullHtml, sandbox |-> SandboxTokens]

(***************************************************************************)
(* The specifications.                                                     *)
(***************************************************************************)
NoGetResp == GetResponse(<<>>, 0, <<>>, "", <<>>)

InitUpload == [pc |-> "idle", entries |-> <<>>, next |-> 1, uploads |-> <<>>, status |-> 0]

IdleChat ==
  /\ reqs = [r \in Requests |-> InitReq]
  /\ backendCalls = 0

IdleGet ==
  /\ fsOutside = {}
  /\ getResp = NoGetResp

IdleClient ==
  /\ clientArtifacts = <<>>
  /\ selectedArtifact = NoArtifact
  /\ clientMessages = <<SystemMessage>>
  /\ sending = NotSending

IdleUpload ==
  /\ uploadStore = {}
  /\ uploadReqs = [r \in Requests |-> InitUpload]

\* the chat endpoint under concurrent requests
Init ==
  /\ envConfigured \in BOOLEAN
  /\ IdleChat
  /\ store = {}
  /\ nextUuid = 0
  /\ dirsCreated = FALSE
  /\ IdleGet
  /\ IdleClient
  /\ IdleUpload

Next ==
  \/ \E r \in Requests, body \in ChatBodies : Post(r, body)
  \/ \E r \in Requests, output \in Catalogue :
        \E failAt \in 0..Len(output) : BackendRespond(r, output, failAt)
  \/ \E r \in Requests, message \in BackendErrors : BackendFail(r, message)

Spec == Init /\ [][Next]_vars

\* the download route over a directory the chat endpoint has written to and
\* a file system with files outside it
InitGet ==
  /\ envConfigured = TRUE
  /\ IdleChat
  /\ \E n \in 0..Len(StoredDocuments) : store = StoreAfter(n) /\ nextUuid = n
  /\ fsOutside \in SUBSET OutsideFiles
  /\ getResp = NoGetResp
  /\ dirsCreated = TRUE
  /\ IdleClient
  /\ IdleUpload

NextGet == \E file \in FileParams : Get(file)

SpecGet == InitGet /\ [][NextGet]_vars

\* create_artifact over the arguments the backend may send
ArtifactArgsOf(title, html, css, js) ==
  JsonText(JObj([k \in {"title", "html"} \cup (IF css = Undef THEN {} ELSE {"css"})
                          \cup (IF js = Undef THEN {} ELSE {"js"}) |->
                   CASE k = "title" -> JStr(title) [] k = "html" -> JStr(html)
                     [] k = "css" -> css [] OTHER -> js]))

HtmlScriptOnly == << Elem("script", {}, <<"evil()">>) >>

ArtifactArgsSpace ==
  {ArtifactArgsOf(title, html, css, js) :
     title \in {<<"T">>, Rep("t", MaxTitleLen + 1)},
     html \in {HtmlRich, HtmlPlain, HtmlScriptOnly},
     css \in {Undef, JStr(<<"p{}">>)},
     js \in {Undef, JStr(<<>>), JStr(<<"run()">>)}}

NextArtifact ==
  \/ Post(1, BodyHello)
  \/ \E args \in ArtifactArgsSpace :
        BackendRespond(1, <<FunctionCall("create_artifact", "c1", args)>>, 0)

SpecArtifact == Init /\ [][NextArtifact]_vars

\* create_document over the arguments the backend may send, and downloads
\* of what the generated-files directory holds
DocumentArgsOf(filename, type, content) ==
  JsonText(JObj([filename |-> JStr(filename), type |-> JStr(type), content |-> JStr(content)]))

DocumentContents ==
  { <<"e'", ",", "1">>,                                   \* a two-byte character
    <<"a", "\n", "\n", "b">>,                             \* two blocks
    <<"\n", "\n", "a">>,                                  \* an empty block, then a block
    <<" ">>,                                              \* white space only
    <<"a", "\n", "\n", " ", "\n", "\n", "\n", "b">> }     \* a blank block between two

DocumentArgsSpace ==
  {DocumentArgsOf(Numbers, type, <<"e'", ",", "1">>) : type \in DocumentTypes}
    \cup {DocumentArgsOf(<<"m","y"," ","r",".","o","l","d">>, "docx", content) :
            content \in DocumentContents}

StoredNames == {e.key : e \in store}

NextDocument ==
  \/ Post(1, BodyHello)
  \/ \E args \in DocumentArgsSpace :
        BackendRespond(1, <<FunctionCall("create_document", "c1", args)>>, 0)
  \/ BackendRespond(1, BodyDone, 0)
  \/ \E file \in StoredNames : Get(file)

SpecDocument == Init /\ [][NextDocument]_vars

\* chat requests whose messages carry attachments, some of the uploaded
\* files no longer in the uploads directory
UploadsPrefix == <<"/","u","p","l","o","a","d","s","/">>

Attachment(n, originalName, mimeType, category, size) ==
  JObj([id |-> JStr(Uuid(n)), originalName |-> JStr(originalName),
        storedFilename |-> JStr(Uuid(n) \o <<Hyphen>> \o originalName),
        mimeType |-> JStr(mimeType), size |-> JNum(size),
        publicUrl |-> JStr(UploadsPrefix \o Uuid(n) \o <<Hyphen>> \o originalName),
        category |-> JStr(category)])

AttImage == Attachment(1, <<"p",".","p","n","g">>, <<"image", "png">>, "image", 3)
AttText == Attachment(2, <<"n",".","m","d">>, <<"text", "markdown">>, "text", 3)
AttOther == Attachment(3, <<"z",".","b","i","n">>, <<"application", "octet-stream">>, "other", 2)

UploadedBlobs ==
  { [key |-> Field(AttImage, "storedFilename").v,
     bytes |-> [format |-> "raw", body |-> <<137, 80, 78>>]],
    [key |-> Field(AttText, "storedFilename").v,
     bytes |-> [format |-> "raw", body |-> <<97, 195, 169>>]],
    [key |-> Field(AttOther, "storedFilename").v,
     bytes |-> [format |-> "raw", body |-> <<0, 255>>]] }

\* the lists of up to MaxAttachments different attachments
AttachmentLists ==
  UNION {{l \in [1..n -> {AttImage, AttText, AttOther}] :
            \A i, j \in 1..n : i # j => l[i] # l[j]} : n \in 0..MaxAttachments}

BodyAttached(first, second) ==
  JsonText(JObj([messages |-> JArr(<<
    IF first = <<>> THEN ChatMsg(<<"m1">>, "assistant", <<"Here you are">>)
    ELSE JObj([id |-> JStr(<<"m1">>), role |-> JStr("assistant"),
               text |-> JStr(<<"Here you are">>), attachments |-> JArr(first)]),
    JObj([id |-> JStr(<<"m2">>), role |-> JStr("user"),
          text |-> JStr(<<"Look at these">>), attachments |-> JArr(second)]) >>)]))

AttachBodies == {BodyAttached(first, second) : first, second \in AttachmentLists}

InitAttach ==
  /\ envConfigured = TRUE
  /\ IdleChat
  /\ store = {}
  /\ nextUuid = Cardinality(UploadedBlobs)
  /\ dirsCreated = TRUE
  /\ IdleGet
  /\ IdleClient
  /\ uploadStore \in SUBSET UploadedBlobs
  /\ uploadReqs = [r \in Requests |-> InitUpload]

NextAttach ==
  \/ \E body \in AttachBodies : Post(1, body)
  \/ BackendRespond(1, BodyDone, 0)
  \/ \E message \in BackendErrors : BackendFail(1, message)

SpecAttach == InitAttach /\ [][NextAttach]_vars

\* requests of every kind of body: the bodies the schema rejects, one for
\* each rule, and bodies it accepts
BodyOf(messages, temperature) ==
  JsonText(JObj([k \in {"messages"} \cup (IF temperature = Undef THEN {} ELSE {"temperature"})
                   |-> IF k = "messages" THEN JArr(messages) ELSE temperature]))

UserHello == ChatMsg(<<"m1">>, "user", <<"Hello">>)

InvalidBodies ==
  { Malformed,
    BodyOf(<<>>, Undef),
    BodyOf(<<ChatMsg(<<"m1">>, "tool", <<"Hello">>)>>, Undef),
    BodyOf(<<UserHello, ChatMsg(<<"m2">>, "user", <<>>)>>, Undef),
    BodyOf(<<UserHello>>, JNum(MaxTemperature + 1)),
    BodyOf(<<UserHello>>, JNum(MinTemperature - 1)) }

ValidBodies ==
  { BodyHello, BodyOf(<<UserHello>>, JNum(MaxTemperature)),
    BodyOf(<<UserHello>>, JNum(MinTemperature)) }

NextPost ==
  \/ \E r \in Requests, body \in InvalidBodies \cup ValidBodies : Post(r, body)
  \/ \E r \in Requests, output \in {BodyDone, BodyDoc} : BackendRespond(r, output, 0)
  \/ \E r \in Requests, message \in BackendErrors : BackendFail(r, message)

SpecPost == Init /\ [][NextPost]_vars

\* uploads of files of every kind, by two clients at once
ImageType == <<"image", "png">>
PlainType == <<"text", "plain">>
ExcelType == <<"application", "vnd.ms-excel">>

UploadForms ==
  { <<>>,
    <<FieldEntry>>,
    << FileEntry(<<"p",".","p","n","g">>, ImageType, <<137, 80, 78>>),
       FileEntry(<<"n",".","t","x","t">>, PlainType, <<97, 195, 169>>) >>,
    << FieldEntry, FileEntry(<<"d",".","c","s","v">>, <<>>, <<49, 44, 50>>) >>,
    << FileEntry(<<"d",".","c","s","v">>, ExcelType, <<49, 44, 50>>),
       FileEntry(<<"z",".","b","i","n">>, <<>>, <<0, 255>>) >>,
    << FileEntry(<<"b",".","l","o","g">>, PlainType, Rep(97, MAX_TEXT_PREVIEW + 1)) >>,
    << FileEntry(<<"e",".","m","d">>, <<>>, Rep(98, MAX_TEXT_PREVIEW)),
       FileEntry(<<"d",".","j","s","o","n">>, <<"application", "json">>, <<49>>) >>,
    << FileEntry(<<"i",".","m","d">>, ImageType, <<>>) >> }

NextUpload ==
  \/ \E u \in {1, 2}, entries \in UploadForms : UploadPost(u, entries)
  \/ \E u \in {1, 2} : UploadSave(u)

SpecUpload == Init /\ [][NextUpload]_vars

\* uploads and chat requests that create documents, at once; the uploads
\* are of two files of one name
NotesTxt == FileEntry(<<"n",".","t","x","t">>, PlainType, <<97>>)
NotesTxtNew == FileEntry(<<"n",".","t","x","t">>, PlainType, <<98>>)

NextConcurrent ==
  \/ \E u \in {1, 2}, entries \in {<<NotesTxt>>, <<NotesTxtNew, NotesTxt>>} :
        UploadPost(u, entries)
  \/ \E u \in {1, 2} : UploadSave(u)
  \/ \E r \in {1, 2} : Post(r, BodyHello)
  \/ \E r \in {1, 2}, output \in {BodyDoc, BodyDone} : BackendRespond(r, output, 0)

SpecConcurrent == Init /\ [][NextConcurrent]_vars

\* create_document over file names of every kind
FilenameSpace ==
  { Numbers,
    <<"m","y"," ","r",".","o","l","d">>,
    <<".","c","s","v">>,                                   \* nothing but an extension
    <<".",".","/",".",".","/","e","t","c","/","p","a","s","s","w","d">>,
    <<"a","/","b",".","t","x","t">>,
    <<"a","\\","b">>,
    <<".",".">>,
    <<"/">>,
    <<"r",".","f","i","n","a","l",".","v","2">>,
    <<"e'","!">>,
    Rep("x", MaxBaseLen),
    Rep("x", MaxBaseLen + 1),
    Rep("/", MaxBaseLen + 1) \o <<".","p","d","f">> }

FilenameArgsSpace ==
  {DocumentArgsOf(filename, "csv", <<"1">>) : filename \in FilenameSpace}
    \cup {DocumentArgsOf(Numbers, type, <<"1">>) : type \in DocumentTypes}

NextFilename ==
  \/ Post(1, BodyHello)
  \/ \E args \in FilenameArgsSpace :
        BackendRespond(1, <<FunctionCall("create_document", "c1", args)>>, 0)
  \/ BackendRespond(1, BodyDone, 0)

SpecFilename == Init /\ [][NextFilename]_vars

\* a conversation of the page with the chat route, turn after turn
UserInputs == { <<"h", "i">>, <<" ">>, <<" ", "o", "k", "\n">> }

NextConversation ==
  \/ \E input \in UserInputs : HandleSubmit(input)
  \/ Fetch
  \/ \E r \in Requests, output \in {BodyDone, BodyRefusal, BodyDoc} :
        BackendRespond(r, output, 0)
  \/ \E r \in Requests, message \in BackendErrors : BackendFail(r, message)
  \/ HandleResponse

SpecConversation == Init /\ [][NextConversation]_vars

\* two chat requests whose tool calls run and whose turn may fail later, at a
\* write or at a backend call; the files of the directory are downloaded
NextPartial ==
  \/ \E r \in {1, 2} : Post(r, BodyHello)
  \/ \E r \in {1, 2}, output \in {BodyBundle, BodyDone}, failAt \in 0..Len(BodyBundle) :
        BackendRespond(r, output, failAt)
  \/ \E r \in {1, 2}, message \in BackendErrors : BackendFail(r, message)
  \/ \E file \in StoredNames : Get(file)

SpecPartial == Init /\ [][NextPartial]_vars

\* the page receiving assistant messages and the user opening and closing
\* the modal
NextClient ==
  \/ \E a \in ServerArtifacts : ReceiveMessage(<<a>>)
  \/ \E i \in 1..MaxClientArtifacts : SelectArtifact(i)
  \/ CloseModal

SpecClient == Init /\ [][NextClient]_vars

(***************************************************************************)
(* What the claims speak of, stated on the responses themselves rather     *)
(* than on what the loop computed from them.                               *)
(***************************************************************************)
\* the function-call items of a response that carry a call id, in order
DispatchableCalls(output) ==
  SelectSeq(output, LAMBDA it : it.type = "function_call" /\ it.call_id \notin {"", NoCallId})

CallIds(items) == [i \in 1..Len(items) |-> items[i].call_id]

IsOptionalString(val) == val.t \in {"undef", "str"}

\* arguments create_artifact accepts
WellFormedArtifactArgs(args) ==
  /\ args.raw = "json"
  /\ args.val.t = "obj"
  /\ Field(args.val, "title").t = "str"
  /\ Len(Field(args.val, "title").v) \in 1..120
  /\ Field(args.val, "html").t = "str"
  /\ Len(Field(args.val, "html").v) >= 1
  /\ \A k \in {"description", "css", "js"} : IsOptionalString(Field(args.val, k))

\* arguments create_document accepts
WellFormedDocumentArgs(args) ==
  /\ args.raw = "json"
  /\ args.val.t = "obj"
  /\ Field(args.val, "filename").t = "str"
  /\ Len(Field(args.val, "filename").v) >= 1
  /\ Field(args.val, "type").t = "str"
  /\ Field(args.val, "type").v \in {"pdf", "docx", "txt", "csv", "md"}
  /\ Field(args.val, "content").t = "str"
  /\ Len(Field(args.val, "content").v) >= 1
  /\ IsOptionalString(Field(args.val, "summary"))

WellFormedCall(it) ==
  \/ it.name = "create_artifact" /\ WellFormedArtifactArgs(it.arguments)
  \/ it.name = "create_document" /\ WellFormedDocumentArgs(it.arguments)

IllFormedCall(it) ==
  it.name \in {"create_artifact", "create_document"} /\ ~WellFormedCall(it)

\* the dispatchable calls of every response the request has handled, in order
HandledCalls(q) ==
  Concat([i \in 1..Len(q.handled) |-> DispatchableCalls(q.handled[i].response.output)])

SuccessfulCalls(q, name) ==
  SelectSeq(HandledCalls(q), LAMBDA it : it.name = name /\ WellFormedCall(it))

\* an executor threw while the request was handling its last response
Threw(q) ==
  /\ q.response.id # 0
  /\ \A i \in 1..Len(q.handled) : q.handled[i].response.id # q.response.id

\* the value of a key of the JSON object a tool output carries
OutputField(out, key) == Field(out.output.val, key)

(***************************************************************************)
(* C1.  The tool-call loop of a request ends exactly at the first          *)
(* response that yields no tool output, and the request then answers 200;  *)
(* every response that yields a tool output is followed by a further       *)
(* backend call, however many went before: the loop has no bound.          *)
(***************************************************************************)
LoopEndsAtFirstEmptyResponse ==
  \A r \in Requests :
    LET q == reqs[r]
        n == Len(q.handled)
    IN /\ \A i \in 1..n :
            IF q.handled[i].outputs = <<>>
            THEN i = n /\ q.pc = "done" /\ q.status = 200
            ELSE Len(q.calls) > i
       /\ q.status = 200 => n > 0 /\ q.handled[n].outputs = <<>>
       /\ q.pc = "calling" => Len(q.calls) = n + 1

\* a request answered 200 after as many rounds as the backend answered calls
LoopRanAndEnded ==
  \E r \in Requests :
    /\ reqs[r].status = 200
    /\ Len(reqs[r].handled) = MaxBackendCalls
    /\ Len(reqs[r].calls) = MaxBackendCalls

(***************************************************************************)
(* C2.  Every backend call after the first of a request is a continuation: *)
(* the response before it produced a tool output, the call names the id of *)
(* that response, and its input is the tool outputs of that response, one  *)
(* per dispatchable call of it, and nothing else.                          *)
(***************************************************************************)
CallsAfterFirstAreContinuations ==
  \A r \in Requests :
    LET q == reqs[r]
    IN /\ Len(q.calls) >= 1 =>
            /\ q.calls[1].previous_response_id = 0
            /\ q.calls[1].tools = {"create_artifact", "create_document"}
       /\ \A i \in 2..Len(q.calls) :
            /\ i - 1 <= Len(q.handled)
            /\ LET prev == q.handled[i - 1]
               IN /\ prev.outputs # <<>>
                  /\ q.calls[i].previous_response_id = prev.response.id
                  /\ q.calls[i].input = prev.outputs
                  /\ CallIds(q.calls[i].input) = CallIds(DispatchableCalls(prev.response.output))
                  /\ \A j \in 1..Len(q.calls[i].input) :
                       q.calls[i].input[j].type = "function_call_output"

\* a request made two continuation calls with different numbers of tool
\* outputs, the second after the other request had been answered in between
TwoContinuations ==
  \E r \in Requests :
    /\ Len(reqs[r].calls) = 3
    /\ Len(reqs[r].calls[3].input) # Len(reqs[r].calls[2].input)

(***************************************************************************)
(* C3.  handleToolCalls yields one tool output per function-call item that *)
(* carries a call id, with that call id, in the order of the items; an     *)
(* unknown name yields an error output and runs no executor, an item       *)
(* without a call id yields nothing and runs no executor; the executors    *)
(* run one after the other in the order of the items.                      *)
(***************************************************************************)
KnownCalls(output) ==
  SelectSeq(DispatchableCalls(output),
            LAMBDA it : it.name \in {"create_artifact", "create_document"})

Ran(items) == [i \in 1..Len(items) |-> [name |-> items[i].name, call_id |-> items[i].call_id]]

OneOutputPerCallInOrder ==
  \A r \in Requests :
    LET q == reqs[r]
        done == Concat([i \in 1..Len(q.handled) |-> Ran(KnownCalls(q.handled[i].response.output))])
    IN /\ \A i \in 1..Len(q.handled) :
            LET h == q.handled[i]
                calls == DispatchableCalls(h.response.output)
            IN /\ CallIds(h.outputs) = CallIds(calls)
               /\ \A j \in 1..Len(h.outputs) :
                    /\ h.outputs[j].type = "function_call_output"
                    /\ calls[j].name \notin {"create_artifact", "create_document"} =>
                         h.outputs[j].output =
                           JsonText(JObj([error |-> JStr(<<"Unknown function: ", calls[j].name>>)]))
       /\ IF Threw(q)
          THEN /\ IsPrefix(done, q.execLog)
               /\ IsPrefix(SubSeq(q.execLog, Len(done) + 1, Len(q.execLog)),
                           Ran(KnownCalls(q.response.output)))
          ELSE q.execLog = done
       /\ Len(q.artifacts) + Len(q.generatedFiles) <= Len(q.execLog)

\* a response with calls of both tools, an unknown name and text was handled,
\* and one with a call that carries no call id
MixedResponseHandled ==
  \E r \in Requests :
    /\ Len(reqs[r].handled) = 2
    /\ reqs[r].handled[1].response.output = BodyMixed
    /\ Len(reqs[r].handled[1].outputs) = 5
    /\ reqs[r].handled[2].response.output = BodySkipped
    /\ Len(reqs[r].execLog) = 4

(***************************************************************************)
(* C4.  A create_artifact or create_document call whose arguments are      *)
(* malformed JSON or violate the schema gets the structured failure        *)
(* {success: false, error, errorDetail} as its tool output, appends        *)
(* nothing to the accumulators and writes no blob; the request does not    *)
(* fail over it: the other calls of the response run and the loop goes on. *)
(***************************************************************************)
IsStructuredFailure(out) ==
  /\ out.output.raw = "json"
  /\ DOMAIN out.output.val.v = {"success", "error", "errorDetail"}
  /\ OutputField(out, "success") = JBool(FALSE)
  /\ OutputField(out, "error").t = "str"
  /\ OutputField(out, "errorDetail").t = "obj"

StoredKeys == {e.key : e \in store}

InvalidArgumentsFailOnlyTheCall ==
  /\ StoredKeys = UNION {{reqs[r].generatedFiles[i].storedFilename :
                            i \in 1..Len(reqs[r].generatedFiles)} : r \in Requests}
  /\ \A r \in Requests :
    LET q == reqs[r]
    IN /\ \A i \in 1..Len(q.handled) :
            LET h == q.handled[i]
                calls == DispatchableCalls(h.response.output)
            IN \A j \in 1..Len(calls) :
                 IllFormedCall(calls[j]) =>
                   /\ Len(h.outputs) = Len(calls)
                   /\ h.outputs[j].call_id = calls[j].call_id
                   /\ IsStructuredFailure(h.outputs[j])
                   /\ Len(q.calls) > i
       /\ ~Threw(q) =>
            /\ Len(q.artifacts) = Len(SuccessfulCalls(q, "create_artifact"))
            /\ Len(q.generatedFiles) = Len(SuccessfulCalls(q, "create_document"))
       /\ Threw(q) =>
            /\ q.execLog # <<>>
            /\ q.execLog[Len(q.execLog)].name = "create_document"
            /\ \E k \in 1..Len(q.response.output) :
                 /\ q.response.output[k].type = "function_call"
                 /\ q.response.output[k].call_id = q.execLog[Len(q.execLog)].call_id
                 /\ WellFormedCall(q.response.output[k])

\* a response with a too long title, a valid call after it and nothing else
\* dispatchable was handled, and the request went on to answer 200
InvalidArgumentsHandled ==
  \E r \in Requests :
    /\ reqs[r].status = 200
    /\ reqs[r].handled[1].response.output = BodyBadArgs
    /\ IsStructuredFailure(reqs[r].handled[1].outputs[1])
    /\ Len(reqs[r].artifacts) = 1

(***************************************************************************)
(* C5.  The accumulators of a request hold one Artifact per successful     *)
(* create_artifact call and one GeneratedFile per successful               *)
(* create_document call of all its loop iterations, in call order, no      *)
(* entry twice and none of another request; a 200 response carries        *)
(* exactly these lists.                                                    *)
(***************************************************************************)
ArgOf(it, key) == Field(it.arguments.val, key)

\* the ids the request's successful tool outputs reported for a key
ReportedIds(q, key) ==
  LET outs == Concat([i \in 1..Len(q.handled) |-> q.handled[i].outputs])
      good == SelectSeq(outs, LAMBDA o : key \in DOMAIN o.output.val.v)
  IN [i \in 1..Len(good) |-> OutputField(good[i], key).v]

AllEntries ==
  UNION {{<<r, "a", i>> : i \in 1..Len(reqs[r].artifacts)}
           \cup {<<r, "f", i>> : i \in 1..Len(reqs[r].generatedFiles)} : r \in Requests}

EntryId(e) ==
  IF e[2] = "a" THEN reqs[e[1]].artifacts[e[3]].id ELSE reqs[e[1]].generatedFiles[e[3]].id

OneEntryPerSuccessfulCall ==
  /\ \A r \in Requests :
       LET q == reqs[r]
           arts == SuccessfulCalls(q, "create_artifact")
           docs == SuccessfulCalls(q, "create_document")
       IN /\ ~Threw(q) =>
               /\ [i \in 1..Len(q.artifacts) |-> q.artifacts[i].title]
                    = [i \in 1..Len(arts) |-> ArgOf(arts[i], "title").v]
               /\ [i \in 1..Len(q.artifacts) |-> q.artifacts[i].id] = ReportedIds(q, "artifactId")
               /\ [i \in 1..Len(q.generatedFiles) |->
                     <<q.generatedFiles[i].type, q.generatedFiles[i].summary>>]
                    = [i \in 1..Len(docs) |-> <<ArgOf(docs[i], "type").v, ArgOf(docs[i], "summary")>>]
               /\ [i \in 1..Len(q.generatedFiles) |-> q.generatedFiles[i].id]
                    = ReportedIds(q, "fileId")
          /\ q.status = 200 =>
               /\ q.message.artifacts = q.artifacts
               /\ q.message.generatedFiles = q.generatedFiles
          /\ q.status # 200 => q.message = NoMessage
  /\ \A e1, e2 \in AllEntries : e1 # e2 => EntryId(e1) # EntryId(e2)

\* a 200 response with an artifact and a generated file of an earlier iteration
ResponseWithBothLists ==
  \E r \in Requests :
    /\ reqs[r].status = 200
    /\ Len(reqs[r].message.artifacts) = 1
    /\ Len(reqs[r].message.generatedFiles) = 1
    /\ Len(reqs[r].handled) = 2

(***************************************************************************)
(* C6.  The text of a 200 response is the first output_text block of the   *)
(* last response of the loop, the one without tool outputs, and empty when *)
(* that response has none; text of earlier responses is not used.          *)
(***************************************************************************)
TextPositions(output) ==
  UNION {IF output[i].type # "message" THEN {}
         ELSE {<<i, j>> : j \in {k \in 1..Len(output[i].content) :
                                    output[i].content[k].type = "output_text"}}
         : i \in 1..Len(output)}

Before(p, o) == p[1] < o[1] \/ (p[1] = o[1] /\ p[2] <= o[2])

FirstTextBlock(output) ==
  IF TextPositions(output) = {} THEN <<>>
  ELSE LET p == CHOOSE x \in TextPositions(output) : \A o \in TextPositions(output) : Before(x, o)
       IN output[p[1]].content[p[2]].text

TextIsFirstBlockOfFinalResponse ==
  \A r \in Requests :
    LET q == reqs[r]
    IN q.status = 200 =>
         /\ q.message.role = "assistant"
         /\ q.message.text = FirstTextBlock(q.handled[Len(q.handled)].response.output)

\* a 200 response after a response that carried text, the final response
\* holding several text blocks
TextOfFinalResponseOnly ==
  \E r \in Requests :
    /\ reqs[r].status = 200
    /\ reqs[r].handled[1].response.output = BodyMixed
    /\ reqs[r].handled[2].response.output = BodySkipped
    /\ reqs[r].message.text = <<"First">>

(***************************************************************************)
(* C7.  Whatever the file parameter of the download route, when the path   *)
(* obtained by joining the generated-files directory with it lies outside  *)
(* that directory the response is 400 and carries no file content, and     *)
(* file bytes (a 200 response) are returned only for paths inside it.      *)
(***************************************************************************)
\* the path is the directory or lies below it
InsideGeneratedDir(fullPath) ==
  fullPath = GENERATED_DIR \/ IsPrefix(GENERATED_DIR \o <<Slash>>, fullPath)

RequestedPath == PathJoin(GENERATED_DIR, getResp.file)

TraversalAnswered400 ==
  getResp.status # 0 =>
    /\ ~InsideGeneratedDir(RequestedPath) =>
          getResp.status = 400 /\ getResp.body = <<"Invalid file path">>
    /\ getResp.status = 200 => InsideGeneratedDir(RequestedPath)

(***************************************************************************)
(* C8.  For create_artifact arguments that pass the schema, previewHtml is *)
(* the output of the allow-list sanitizer on <style>css</style>html: it    *)
(* has no script tag and no attribute outside the allowed set; fullHtml    *)
(* carries the html as given, unsanitized, and the js as given inside a    *)
(* script block; and a request's artifacts are exactly those built this    *)
(* way from its accepted calls.  As the specification states it, the       *)
(* script block is there whenever js is present (ScriptBlockWhenPresent);  *)
(* the code puts it there when js is present and not empty, and leaves it  *)
(* out otherwise (ScriptBlockWhenNonEmpty).                                *)
(***************************************************************************)
\* the arguments of the request's create_artifact calls that pass the schema
AcceptedArtifactArgs(q) ==
  LET calls == SuccessfulCalls(q, "create_artifact")
  IN [i \in 1..Len(calls) |-> calls[i].arguments.val]

NoScriptTag(markup) == \A i \in 1..Len(markup) : markup[i].tag # "script"

\* the allowed set: per tag the base attributes, and style, class, id, data-*
InAllowedSet(tag, name) ==
  \/ name \in {<<"s","t","y","l","e">>, <<"c","l","a","s","s">>, <<"i","d">>}
  \/ Len(name) > 5 /\ SubSeq(name, 1, 5) = <<"d","a","t","a","-">>
  \/ tag = "a" /\ name \in {<<"h","r","e","f">>, <<"n","a","m","e">>, <<"t","a","r","g","e","t">>}
  \/ tag = "img" /\ name \in {<<"s","r","c">>, <<"a","l","t">>, <<"t","i","t","l","e">>}

OnlyAllowedAttributes(markup) ==
  \A i \in 1..Len(markup) : \A name \in markup[i].attrs : InAllowedSet(markup[i].tag, name)

PartsOf(fullHtml, kind) == SelectSeq(fullHtml, LAMBDA part : part.k = kind)

PreviewAndHtmlOf(a, args) ==
  /\ a.previewHtml =
       sanitizeHtml(<<Elem("style", {}, OrEmpty(Field(args, "css")))>> \o Field(args, "html").v)
  /\ NoScriptTag(a.previewHtml)
  /\ OnlyAllowedAttributes(a.previewHtml)
  /\ PartsOf(a.fullHtml, "html") = <<[k |-> "html", v |-> Field(args, "html").v]>>

JsPresent(args) == Field(args, "js") # Undef

JsNonEmpty(args) == JsPresent(args) /\ Field(args, "js").v # <<>>

HasScriptBlockOf(a, args) ==
  PartsOf(a.fullHtml, "script") = <<[k |-> "script", v |-> Field(args, "js").v]>>

ScriptBlockWhenPresent ==
  \A r \in Requests :
    /\ Len(reqs[r].artifacts) = Len(AcceptedArtifactArgs(reqs[r]))
    /\ \A i \in 1..Len(reqs[r].artifacts) :
         /\ PreviewAndHtmlOf(reqs[r].artifacts[i], AcceptedArtifactArgs(reqs[r])[i])
         /\ JsPresent(AcceptedArtifactArgs(reqs[r])[i]) =>
              HasScriptBlockOf(reqs[r].artifacts[i], AcceptedArtifactArgs(reqs[r])[i])

ScriptBlockWhenNonEmpty ==
  \A r \in Requests :
    /\ Len(reqs[r].artifacts) = Len(AcceptedArtifactArgs(reqs[r]))
    /\ \A i \in 1..Len(reqs[r].artifacts) :
         /\ PreviewAndHtmlOf(reqs[r].artifacts[i], AcceptedArtifactArgs(reqs[r])[i])
         /\ IF JsNonEmpty(AcceptedArtifactArgs(reqs[r])[i])
            THEN HasScriptBlockOf(reqs[r].artifacts[i], AcceptedArtifactArgs(reqs[r])[i])
            ELSE PartsOf(reqs[r].artifacts[i].fullHtml, "script") = <<>>

\* one request has built an artifact from markup with a script tag and event
\* handlers and with js, and one from arguments whose js is the empty string
SanitizedAndScriptedArtifacts ==
  /\ Len(reqs[1].artifacts) = 2
  /\ AcceptedArtifactArgs(reqs[1])[1] =
       JObj([title |-> JStr(<<"T">>), html |-> JStr(HtmlRich), css |-> JStr(<<"p{}">>),
             js |-> JStr(<<"run()">>)])
  /\ reqs[1].artifacts[1].previewHtml # <<Elem("style", {}, <<"p{}">>)>> \o HtmlRich
  /\ PartsOf(reqs[1].artifacts[1].fullHtml, "script") = <<[k |-> "script", v |-> <<"run()">>]>>
  /\ Field(AcceptedArtifactArgs(reqs[1])[2], "js") = JStr(<<>>)
  /\ PartsOf(reqs[1].artifacts[2].fullHtml, "script") = <<>>

(***************************************************************************)
(* C9.  On the page, fullHtml is rendered only as the document of the      *)
(* modal's sandboxed iframe and that iframe is fully isolated from the     *)
(* host page; what is injected inline into the host page is the sanitized  *)
(* previewHtml of each artifact and nothing else.                          *)
(***************************************************************************)
\* a sandboxed frame is isolated from its host when its document cannot run
\* script or has an opaque origin; with both allow-scripts and
\* allow-same-origin a srcdoc document runs script in the host's origin
FullyIsolated(frame) == ~({"allow-scripts", "allow-same-origin"} \subseteq frame.sandbox)

FullHtmlOnlyInIsolatedFrame ==
  /\ \A i \in 1..Len(clientArtifacts) : InlineHtml[i] = clientArtifacts[i].previewHtml
  /\ selectedArtifact # NoArtifact =>
       /\ ModalFrame.srcDoc = selectedArtifact.fullHtml
       /\ FullyIsolated(ModalFrame)

(***************************************************************************)
(* C10.  End to end: the backend first asks for create_document            *)
(* {filename: "numbers", type: "csv", content: "1,2,3"} and then says      *)
(* "Done".  The response is 200, role assistant, text "Done", one          *)
(* generated file of type csv named numbers.csv whose downloadUrl is the   *)
(* route prefix followed by <id>-numbers.csv; and for every GeneratedFile  *)
(* the downloadUrl is that prefix followed by storedFilename, which is the *)
(* id, a hyphen and the filename.                                          *)
(***************************************************************************)
NumbersCsv == Numbers \o <<".","c","s","v">>

EndToEndScenario(q) ==
  /\ q.status = 200
  /\ Len(q.handled) = 2
  /\ q.handled[1].response.output = BodyDoc
  /\ q.handled[2].response.output = BodyDone

EndToEnd(prefix) ==
  \A r \in Requests :
    LET q == reqs[r]
    IN /\ EndToEndScenario(q) =>
            /\ q.message.role = "assistant"
            /\ q.message.text = <<"Done">>
            /\ Len(q.message.generatedFiles) = 1
            /\ q.message.generatedFiles[1].type = "csv"
            /\ q.message.generatedFiles[1].filename = NumbersCsv
            /\ q.message.generatedFiles[1].downloadUrl
                 = prefix \o q.message.generatedFiles[1].id \o <<"-">> \o NumbersCsv
            /\ \E e \in store : /\ e.key = q.message.generatedFiles[1].storedFilename
                                /\ e.bytes.body = <<49, 44, 50, 44, 51>>
       /\ \A i \in 1..Len(q.generatedFiles) :
            LET g == q.generatedFiles[i]
            IN /\ g.downloadUrl = prefix \o g.storedFilename
               /\ g.storedFilename = g.id \o <<"-">> \o g.filename

\* the claim as stated: the downloadUrl starts with /generated/
EndToEndUnderGenerated == EndToEnd(<<"/","g","e","n","e","r","a","t","e","d","/">>)

\* the claim as amended: the downloadUrl starts with /api/generated/
EndToEndUnderApiGenerated ==
  EndToEnd(<<"/","a","p","i","/","g","e","n","e","r","a","t","e","d","/">>)

\* the scenario has run
EndToEndRan == \E r \in Requests : EndToEndScenario(reqs[r])

(***************************************************************************)
(* C11.  Round trip of a document: after a successful create_document call *)
(* of type txt, csv or md the bytes stored under its storedFilename are    *)
(* the UTF-8 encoding of the content of the call, and a later GET of that  *)
(* storedFilename answers 200 with exactly the stored bytes and the        *)
(* Content-Type of the type; for pdf and docx the GET answers with the     *)
(* stored bytes and the Content-Type of the type.                          *)
(***************************************************************************)
ContentTypeOfType(type) ==
  CASE type = "pdf" -> "application/pdf"
    [] type = "docx" ->
         "application/vnd.openxmlformats-officedocument.wordprocessingml.document"
    [] type = "txt" -> "text/plain; charset=utf-8"
    [] type = "csv" -> "text/csv; charset=utf-8"
    [] type = "md" -> "text/markdown; charset=utf-8"

BlobsUnder(key) == {e \in store : e.key = key}

\* the generated files of the first request, each with the call it came from
DocumentsOf(q) ==
  LET docs == SuccessfulCalls(q, "create_document")
  IN {[file |-> q.generatedFiles[i], call |-> docs[i]] :
        i \in 1..(IF Threw(q) THEN 0 ELSE Len(q.generatedFiles))}

DocumentRoundTrip ==
  \A d \in DocumentsOf(reqs[1]) :
    /\ Cardinality(BlobsUnder(d.file.storedFilename)) = 1
    /\ \A e \in BlobsUnder(d.file.storedFilename) :
         /\ ArgOf(d.call, "type").v \in {"txt", "csv", "md"} =>
               e.bytes = [format |-> "raw", body |-> Utf8(ArgOf(d.call, "content").v)]
         /\ getResp.file = d.file.storedFilename =>
               /\ getResp.status = 200
               /\ getResp.body = e.bytes
               /\ getResp.contentType = ContentTypeOfType(ArgOf(d.call, "type").v)

\* a csv of content "e',1" downloaded as its four bytes, and a docx downloaded
DocumentDownloaded ==
  /\ \E d \in DocumentsOf(reqs[1]) :
       /\ ArgOf(d.call, "type").v = "csv"
       /\ ArgOf(d.call, "content").v = <<"e'", ",", "1">>
       /\ getResp.file = d.file.storedFilename
       /\ getResp.status = 200
       /\ getResp.body = [format |-> "raw", body |-> <<195, 169, 44, 49>>]
  /\ \E d \in DocumentsOf(reqs[1]) : ArgOf(d.call, "type").v \in {"pdf", "docx"}

(***************************************************************************)
(* C12.  For every file create_document made, the Content-Disposition of   *)
(* the GET of its storedFilename names the file by the GeneratedFile's     *)
(* filename: the id prefix is stripped whole, no part of the id remains.   *)
(***************************************************************************)
DispositionIsFilename ==
  \A d \in DocumentsOf(reqs[1]) :
    (getResp.file = d.file.storedFilename /\ getResp.status = 200) =>
       getResp.disposition = d.file.filename

(***************************************************************************)
(* C20.  The docx of a content has one paragraph per non-empty block of    *)
(* the content split on blank lines, an empty block giving no paragraph,   *)
(* and the whole content as its single paragraph only when no block is     *)
(* non-empty.                                                              *)
(***************************************************************************)
NonEmptyBlocks(content) ==
  SelectSeq(SplitBlankLines(content, 1, <<>>), LAMBDA block : Trim(block) # <<>>)

DocxParagraphsAreNonEmptyBlocks ==
  \A d \in DocumentsOf(reqs[1]) :
    ArgOf(d.call, "type").v = "docx" =>
      \A e \in BlobsUnder(d.file.storedFilename) :
        LET blocks == NonEmptyBlocks(ArgOf(d.call, "content").v)
        IN IF blocks # <<>>
           THEN /\ Len(e.bytes.body) = Len(blocks)
                /\ \A i \in 1..Len(blocks) : e.bytes.body[i] # <<>>
           ELSE e.bytes.body = <<ArgOf(d.call, "content").v>>

(***************************************************************************)
(* C13.  An attachment whose stored file cannot be read, of whatever       *)
(* category, stands in the backend input as a text block saying that it    *)
(* could not be loaded; the other attachments and the messages are         *)
(* translated all the same, the backend is called, and the request does    *)
(* not answer with an error because of it.                                 *)
(***************************************************************************)
\* the messages of the body of a request that got as far as the backend
MessagesOf(q) == Field(q.request.val, "messages").v

Readable(attachment) ==
  \E e \in uploadStore : e.key = Field(attachment, "storedFilename").v

CouldNotBeLoaded(attachment) ==
  [type |-> "input_text",
   text |-> <<"Attachment \"", Field(attachment, "originalName").v,
              "\" could not be loaded from the server.">>]

\* the block was made for this attachment: it carries its name or, an image
\* block, its MIME type
BlockIsOf(block, attachment) ==
  IF block.type = "input_image"
  THEN /\ Field(attachment, "category").v = "image"
       /\ block.image_url[2] = Field(attachment, "mimeType").v
  ELSE block.type = "input_text" /\ block.text[2] = Field(attachment, "originalName").v

UnreadableAttachmentDegrades ==
  LET q == reqs[1]
  IN q.pc # "idle" =>
       /\ Len(q.calls) >= 1
       /\ q.status \in {0, 200, 500}
       /\ q.status = 500 => q.details \in BackendErrors
       /\ Len(q.calls[1].input) = Len(MessagesOf(q))
       /\ \A i \in 1..Len(MessagesOf(q)) :
            \A k \in 1..Len(AttachmentsOf(MessagesOf(q)[i])) :
              LET attachment == AttachmentsOf(MessagesOf(q)[i])[k]
                  block == q.calls[1].input[i].content[1 + k]
              IN IF Readable(attachment)
                 THEN block # CouldNotBeLoaded(attachment) /\ BlockIsOf(block, attachment)
                 ELSE block = CouldNotBeLoaded(attachment)

\* a request answered 200 whose message had an image that could not be read
\* next to an attachment that could, the request having sent every
\* attachment that cannot be read
DegradedAndAnswered ==
  LET q == reqs[1]
  IN /\ q.status = 200
     /\ \E i \in 1..Len(MessagesOf(q)) :
          LET atts == AttachmentsOf(MessagesOf(q)[i])
          IN /\ \E k \in 1..Len(atts) : atts[k] = AttImage /\ ~Readable(atts[k])
             /\ \E k \in 1..Len(atts) : Readable(atts[k])
     /\ \A a \in {AttText, AttOther} : ~Readable(a) =>
          \E i \in 1..Len(MessagesOf(q)) :
            \E k \in 1..Len(AttachmentsOf(MessagesOf(q)[i])) :
              AttachmentsOf(MessagesOf(q)[i])[k] = a

(***************************************************************************)
(* C19.  The backend input has one message per chat message, in order and  *)
(* with the same role; its content is one text block, an output block for  *)
(* an assistant message and an input block otherwise, followed by exactly  *)
(* one block per attachment in the order of the attachments, whatever      *)
(* order the reads of the attachments complete in.                         *)
(***************************************************************************)
InputFollowsConversation ==
  LET q == reqs[1]
  IN q.pc # "idle" =>
       /\ Len(q.calls[1].input) = Len(MessagesOf(q))
       /\ \A i \in 1..Len(MessagesOf(q)) :
            LET message == MessagesOf(q)[i]
                azure == q.calls[1].input[i]
            IN /\ azure.role = Field(message, "role").v
               /\ Len(azure.content) = 1 + Len(AttachmentsOf(message))
               /\ azure.content[1] =
                    [type |-> IF Field(message, "role").v = "assistant" THEN "output_text"
                              ELSE "input_text",
                     text |-> Field(message, "text").v]
               /\ \A k \in 1..Len(AttachmentsOf(message)) :
                    BlockIsOf(azure.content[1 + k], AttachmentsOf(message)[k])

\* a call made for an assistant message and a user message of two
\* attachments each, all of them read
TwoAttachmentsEach ==
  LET q == reqs[1]
  IN /\ q.pc = "calling"
     /\ \A i \in 1..Len(MessagesOf(q)) :
          /\ Len(AttachmentsOf(MessagesOf(q)[i])) = 2
          /\ \A k \in 1..2 : Readable(AttachmentsOf(MessagesOf(q)[i])[k])

(***************************************************************************)
(* C14.  A chat request whose body cannot be parsed or violates the        *)
(* request schema (no message, a role outside system, user and assistant,  *)
(* an empty text, a temperature outside [0, 2]) is answered 400, and for   *)
(* it no backend call is made, no executor runs and no blob is written.    *)
(* As the specification states it, this holds of every such request; it    *)
(* holds of those that arrive while the credentials are configured.        *)
(***************************************************************************)
\* the rules of the specification, on the body as sent
Unparsable(body) == body.raw # "json"

ViolatesRequestSchema(body) ==
  LET messages == Field(body.val, "messages").v
      temperature == Field(body.val, "temperature")
  IN \/ messages = <<>>
     \/ \E i \in 1..Len(messages) :
          \/ Field(messages[i], "role").v \notin {"system", "user", "assistant"}
          \/ Field(messages[i], "text").v = <<>>
     \/ temperature # Undef /\ (temperature.v < 0 \/ temperature.v > 20)

InvalidBody(body) == Unparsable(body) \/ ViolatesRequestSchema(body)

\* every blob of the generated-files directory is a generated file of a
\* request whose body was valid
BlobsAreOfValidRequests ==
  \A e \in store :
    \E r \in Requests :
      /\ ~InvalidBody(reqs[r].request)
      /\ \E i \in 1..Len(reqs[r].generatedFiles) :
           reqs[r].generatedFiles[i].storedFilename = e.key

RejectedWith400(q) ==
  /\ q.pc = "done"
  /\ q.status = 400
  /\ q.calls = <<>>
  /\ q.execLog = <<>>
  /\ q.artifacts = <<>> /\ q.generatedFiles = <<>>

InvalidBodyAnswered400 ==
  /\ \A r \in Requests :
       (reqs[r].pc # "idle" /\ InvalidBody(reqs[r].request)) => RejectedWith400(reqs[r])
  /\ BlobsAreOfValidRequests

InvalidBodyAnswered400WhenConfigured ==
  /\ \A r \in Requests :
       (envConfigured /\ reqs[r].pc # "idle" /\ InvalidBody(reqs[r].request))
          => RejectedWith400(reqs[r])
  /\ BlobsAreOfValidRequests

\* a body with a temperature above 2 rejected while another request, of a
\* valid body, has written a blob
RejectedNextToAccepted ==
  /\ \E r \in Requests :
       /\ reqs[r].status = 400
       /\ reqs[r].request.raw = "json"
       /\ Field(reqs[r].request.val, "temperature") = JNum(21)
  /\ store # {}

(***************************************************************************)
(* C15.  With the credentials not configured a chat request is answered    *)
(* 500 before anything else happens: the body is neither read nor          *)
(* validated (an invalid body gets 500, not 400), no directory is created, *)
(* no backend call is made and no executor runs.                           *)
(***************************************************************************)
ConfigurationErrorFirst ==
  ~envConfigured =>
    /\ ~dirsCreated
    /\ backendCalls = 0
    /\ store = {}
    /\ \A r \in Requests :
         reqs[r].pc # "idle" =>
           /\ reqs[r].pc = "done"
           /\ reqs[r].status = 500
           /\ reqs[r].error = "Azure OpenAI environment variables are not configured."
           /\ reqs[r].calls = <<>>
           /\ reqs[r].execLog = <<>>

\* an unparsable body and a valid one both answered 500
InvalidAndValidAnswered500 ==
  /\ ~envConfigured
  /\ \E r \in Requests : reqs[r].status = 500 /\ reqs[r].request = Malformed
  /\ \E r \in Requests : reqs[r].status = 500 /\ reqs[r].request = BodyHello

(***************************************************************************)
(* C16.  A backend call that fails, the first of a request or a            *)
(* continuation, is not retried: the failed call is the last call the      *)
(* request makes, no call is made twice, and the request ends with 500     *)
(* carrying the message of the error.                                      *)
(***************************************************************************)
\* the request ended on a backend call that failed: every response it got
\* was handled, and the answer is the 500 of the catch
EndedOnFailedCall(q) ==
  /\ q.status = 500
  /\ q.error = "Failed to generate a response from Azure OpenAI."
  /\ ~Threw(q)

BackendFailureNotRetried ==
  \A r \in Requests :
    LET q == reqs[r]
    IN /\ Len(q.calls) <= Len(q.handled) + 1
       /\ \A i, j \in 1..Len(q.calls) : i # j => q.calls[i] # q.calls[j]
       /\ EndedOnFailedCall(q) =>
            /\ q.pc = "done"
            /\ Len(q.calls) = Len(q.handled) + 1
            /\ q.details \in BackendErrors
            /\ q.message = NoMessage

\* one request failed on its first call, another on a continuation
FailedFirstAndContinuation ==
  /\ \E r \in Requests : EndedOnFailedCall(reqs[r]) /\ Len(reqs[r].calls) = 1
  /\ \E r \in Requests :
       /\ EndedOnFailedCall(reqs[r])
       /\ Len(reqs[r].calls) = 2
       /\ reqs[r].details = "429 Rate limit reached"

(***************************************************************************)
(* C17.  An uploaded file is classified image when its MIME type is an     *)
(* image type, otherwise text when its MIME type is a known text type or   *)
(* its name has a known text extension (.md, .csv, .tsv, .log), otherwise  *)
(* other; it has a textPreview exactly when classified text, which is the  *)
(* content when at most 8000 characters long and else its first 8000       *)
(* characters followed by the truncation marker.                           *)
(***************************************************************************)
\* the uploads of all requests, each with the entry it was made from
UploadsWithEntries ==
  UNION {{[meta |-> uploadReqs[u].uploads[i],
           entry |-> SelectSeq(uploadReqs[u].entries, LAMBDA e : e.kind = "file")[i]] :
            i \in 1..Len(uploadReqs[u].uploads)} : u \in DOMAIN uploadReqs}

KnownTextType(type) ==
  type # <<>> /\ (type[1] = "text" \/ type \in {<<"application", "json">>,
                                                 <<"application", "xml">>,
                                                 <<"application", "yaml">>})

KnownTextExtension(name) ==
  \E ext \in {<<".","m","d">>, <<".","c","s","v">>, <<".","t","s","v">>, <<".","l","o","g">>} :
     EndsWith(name, ext)

SpecifiedCategory(entry) ==
  IF entry.type # <<>> /\ entry.type[1] = "image" THEN "image"
  ELSE IF KnownTextType(entry.type) \/ KnownTextExtension(entry.name) THEN "text"
  ELSE "other"

PreviewAsSpecified(x) ==
  LET content == Utf8Decode(x.entry.bytes)
  IN IF x.meta.category # "text" THEN x.meta.textPreview = Undef
     ELSE /\ x.meta.textPreview.t = "str"
          /\ IF Len(content) <= 8000 THEN x.meta.textPreview.v = content
             ELSE /\ SubSeq(x.meta.textPreview.v, 1, 8000) = SubSeq(content, 1, 8000)
                  /\ SubSeq(x.meta.textPreview.v, 8001, Len(x.meta.textPreview.v))
                       = TruncationMarker

UploadsClassifiedAsSpecified ==
  \A x \in UploadsWithEntries :
    /\ x.meta.category = SpecifiedCategory(x.entry)
    /\ PreviewAsSpecified(x)

(***************************************************************************)
(* C18.  Under every interleaving of upload and chat requests each blob    *)
(* is written under a key no blob has had before: no step overwrites or    *)
(* removes a stored blob, and the two stores only grow.                    *)
(***************************************************************************)
KeysOf(dir) == {e.key : e \in dir}

StoresOnlyGrow ==
  [][/\ store \subseteq store'
     /\ uploadStore \subseteq uploadStore'
     /\ \A e \in (store' \ store) : e.key \notin KeysOf(store)
     /\ \A e \in (uploadStore' \ uploadStore) : e.key \notin KeysOf(uploadStore)
     /\ Cardinality(KeysOf(store')) = Cardinality(store')
     /\ Cardinality(KeysOf(uploadStore')) = Cardinality(uploadStore')]_vars

\* two uploads of files of the same name and a generated document, all stored
SameNameStoredTwice ==
  /\ \E a, b \in uploadStore :
       /\ a.key # b.key
       /\ a.bytes # b.bytes
       /\ EndsWith(a.key, <<Hyphen>> \o NotesTxt.name)
       /\ EndsWith(b.key, <<Hyphen>> \o NotesTxt.name)
  /\ store # {}
  /\ \E u \in {1, 2} : uploadReqs[u].pc = "saving"

(***************************************************************************)
(* C21.  For every file name create_document accepts, the base name of     *)
(* the file has only characters of [A-Za-z0-9._-] and is 1 to 120 long,    *)
(* the fixed default name when stripping the extension and replacing       *)
(* characters leaves nothing; the final name is the base name and the      *)
(* extension of the type; the storage key is the fresh id, a hyphen and    *)
(* the final name, so it has no path separator and the blob lies directly  *)
(* inside the generated-files directory: a key without a separator that   *)
(* is neither "." nor ".." names a direct child of the directory it is     *)
(* joined to.                                                              *)
(***************************************************************************)
CanonicalExtension(type) ==
  CASE type = "pdf" -> <<".","p","d","f">>
    [] type = "docx" -> <<".","d","o","c","x">>
    [] type = "txt" -> <<".","t","x","t">>
    [] type = "csv" -> <<".","c","s","v">>
    [] type = "md" -> <<".","m","d">>

\* the final name without the extension of the type
BaseOf(d) ==
  SubSeq(d.file.filename, 1,
         Len(d.file.filename) - Len(CanonicalExtension(ArgOf(d.call, "type").v)))

\* the file name is an extension and nothing else
OnlyAnExtension(filename) ==
  /\ Len(filename) >= 2
  /\ filename[1] = "."
  /\ \A j \in 2..Len(filename) : filename[j] \notin {".", "/"}

FilenameIsSafe ==
  /\ \A d \in DocumentsOf(reqs[1]) :
       LET filename == ArgOf(d.call, "filename").v
           base == BaseOf(d)
       IN /\ d.file.filename = base \o CanonicalExtension(ArgOf(d.call, "type").v)
          /\ Len(base) \in 1..120
          /\ \A i \in 1..Len(base) :
               /\ base[i] \in Lower \cup Upper \cup Digit \cup {".", "_", "-"}
               /\ ~OnlyAnExtension(filename) => base[i] \in {filename[i], "_"}
          /\ OnlyAnExtension(filename) =>
               base = <<"a","z","u","r","e","-","a","i","-","d","o","c","u","m","e","n","t">>
          /\ d.file.storedFilename = d.file.id \o <<"-">> \o d.file.filename
          /\ \A i \in 1..Len(d.file.storedFilename) :
               d.file.storedFilename[i] \notin {"/", "\\"}
          /\ d.file.storedFilename \notin {<<".">>, <<".", ".">>}
          /\ Cardinality(BlobsUnder(d.file.storedFilename)) = 1
  /\ \A d, other \in DocumentsOf(reqs[1]) : d.file.id = other.file.id => d = other

\* a path of parent directories stored under a name without separators, and
\* a name that is only an extension stored under the default name
UnsafeNamesStored ==
  /\ \E d \in DocumentsOf(reqs[1]) :
       /\ ArgOf(d.call, "filename").v
            = <<".",".","/",".",".","/","e","t","c","/","p","a","s","s","w","d">>
       /\ BaseOf(d) = <<".",".","_",".",".","_","e","t","c","_","p","a","s","s","w","d">>
  /\ \E d \in DocumentsOf(reqs[1]) :
       /\ OnlyAnExtension(ArgOf(d.call, "filename").v)
       /\ Len(BaseOf(d)) = 17

(***************************************************************************)
(* C22.  After any sequence of successful chat turns, the conversation the *)
(* page sends on the next submit, every assistant message it got from the  *)
(* chat route included, passes the validation of the chat route: a 200     *)
(* response never makes a later request of the conversation fail with 400. *)
(***************************************************************************)
ConversationStaysValid ==
  /\ sending # NotSending => ~InvalidBody(sending.body)
  /\ \A r \in Requests : reqs[r].status # 400

(***************************************************************************)
(* C23.  A chat request that ends with 500 after tool calls ran (a later   *)
(* backend call or a later write failed) answers with no message, so with  *)
(* no artifacts and no generated files; every blob it wrote stays in the   *)
(* generated-files directory, GET answers it with 200 and its bytes, and   *)
(* the message of no response names it.  Every generated file of a 200     *)
(* response has its blob in the directory.                                 *)
(***************************************************************************)
\* the files the request made before it ended: the generatedFiles of
\* runResponsesCall
FilesMadeBy(q) == {q.generatedFiles[i] : i \in 1..Len(q.generatedFiles)}

\* the generated files the responses carry
ReferencedFiles ==
  UNION {{reqs[r].message.generatedFiles[i].storedFilename :
            i \in 1..Len(reqs[r].message.generatedFiles)} : r \in Requests}

FailedTurnLeavesItsBlobs ==
  \A r \in Requests :
    LET q == reqs[r]
    IN /\ (q.pc = "done" /\ q.status = 500) =>
            /\ q.message = NoMessage
            /\ \A f \in FilesMadeBy(q) :
                 /\ Cardinality(BlobsUnder(f.storedFilename)) = 1
                 /\ GET(f.storedFilename).status = 200
                 /\ \A e \in BlobsUnder(f.storedFilename) :
                      GET(f.storedFilename).body = e.bytes
                 /\ getResp.file = f.storedFilename => getResp = GET(f.storedFilename)
                 /\ f.storedFilename \notin ReferencedFiles
       /\ (q.pc = "done" /\ q.status = 200) =>
            /\ FilesMadeBy(q) =
                 {q.message.generatedFiles[i] : i \in 1..Len(q.message.generatedFiles)}
            /\ \A f \in FilesMadeBy(q) : Cardinality(BlobsUnder(f.storedFilename)) = 1

\* one request failed at the write of its second document, the other at the
\* backend call after its tool calls, and a blob of the first was downloaded
OrphanDownloaded ==
  /\ reqs[1].status = 500 /\ reqs[1].details = WriteFailure
  /\ Len(reqs[1].generatedFiles) = 1 /\ Len(reqs[1].artifacts) = 1
  /\ reqs[2].status = 500 /\ reqs[2].details \in BackendErrors
  /\ Len(reqs[2].generatedFiles) = 2
  /\ getResp.file = reqs[1].generatedFiles[1].storedFilename
  /\ getResp.status = 200
====
